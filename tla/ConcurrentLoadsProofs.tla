------------------------ MODULE ConcurrentLoadsProofs ------------------------
(***************************************************************************)
(* Theorems about interleaved loads, for any number of applies, reloads,    *)
(* seeds and fact loads of any clients: the types, that the locks do what   *)
(* they are taken for, and what is committed of histories and facts.        *)
(***************************************************************************)
EXTENDS ConcurrentLoads, SnapshotTableProofs

USE ForeverAssumption

(***************************************************************************)
(* The inductive invariants.                                                *)
(***************************************************************************)

\* Functions from part of D to R.
Partial(D, R) == UNION {[S -> R] : S \in SUBSET D}

\* The types of the tables, of a load's work and of its writes.
Histories == Partial(Int, Version)
Marks == Lsns \cup {None} \cup {l - 1 : l \in Lsns}
Pinnings == Partial(Facts, Int)

Tables == [snap : [Clients -> Histories], wm : [Clients -> Marks],
           fact : Pinnings, rejected : SUBSET (Reasons \X Lsns)]

Items == {None} \cup Lsns \cup Clients \cup Facts

Jobs == [events : SUBSET Lsns, pending : SUBSET Clients, left : SUBSET Facts,
         orphans : BOOLEAN, item : Items, seen : Int, keys : SUBSET Int]

Edits == [put : Histories, gone : SUBSET Int]

Writes == [rows : [Clients -> Edits], marks : Partial(Clients, Marks \ {None}),
           pins : Pinnings, rejected : SUBSET (Reasons \X Lsns)]

\* TypeOK, with the domains of the functions it looks into.
Shape ==
    /\ db \in Tables
    /\ at \in [Loads -> Steps]
    /\ job \in [Loads -> Jobs]
    /\ own \in [Loads -> Writes]
    /\ locks = [t \in Loads |-> locks[t]]

\* A load works on a row of its list, its list is of its kind, and one that
\* does not run has no list, no writes and no locks.
InOrder(t, step, work, writes, held) ==
    /\ step = "apply" => work.item \in work.events
    /\ step = "reset" => work.item \in work.pending /\ Kind[t] = "reload" /\ work.events = {}
    /\ step \in {"baseline", "repoint", "delete"} =>
          work.item \in work.pending /\ Kind[t] = "seed"
    /\ step \in {"stopgap", "allocate", "insert", "pin"} => work.item \in work.left
    /\ work.events # {} => Kind[t] \in {"apply", "reload"}
    /\ work.pending # {} => Kind[t] \in {"seed", "reload"}
    /\ work.left # {} => Kind[t] = "facts"
    /\ Kind[t] = "reload" => work.pending \subseteq DOMAIN ReloadFrom
    /\ step \in {"ready", "committed"} \cup Failures =>
          work = NoWork /\ writes = NoWrites /\ held = {}

\* The type invariant.
TypeInv == Shape /\ \A t \in Loads : InOrder(t, at[t], job[t], own[t], locks[t])

\* The advisory locks of a client.
HoldsApply(t, c) == <<"cdc_apply", c>> \in locks[t]
HoldsStopgap(t, c) == <<"risk_snapshot_stopgap", c>> \in locks[t]

\* One load holds an advisory lock at a time.
Exclusive ==
    \A t, u \in Loads : \A c \in Clients :
        (HoldsApply(t, c) /\ HoldsApply(u, c)) \/ (HoldsStopgap(t, c) /\ HoldsStopgap(u, c))
            => t = u

\* Marks are written under the lock, and the one read under it is still the one.
MarksLocked(t) ==
    /\ \A c \in DOMAIN own[t].marks : HoldsApply(t, c)
    /\ at[t] = "apply" => /\ HoldsApply(t, Wal[job[t].item].client)
                          /\ job[t].seen = Mark(t, Wal[job[t].item].client)
    /\ at[t] = "reset" => HoldsApply(t, job[t].item)
    /\ Kind[t] = "reload" => \A l \in job[t].events : HoldsApply(t, Wal[l].client)

\* The rows of a client that a load has written or deleted.
Touched(edit) == DOMAIN edit.put \cup edit.gone

\* The rows a load has written are its own.
RowsLocked ==
    \A t, u \in Loads : \A c \in Clients :
        t # u => Touched(own[t].rows[c]) \cap Touched(own[u].rows[c]) = {}

\* New rows below all others are written under the stopgaps' lock, where nobody
\* else has put one.
StopgapsLocked(t) ==
    /\ \A c \in Clients : \A l \in DOMAIN own[t].rows[c].put :
          l < 0 => l \in DOMAIN db.snap[c] \/ HoldsStopgap(t, c)
    /\ at[t] \in {"allocate", "insert"} => HoldsStopgap(t, FactRow[job[t].item].client)
    /\ at[t] = "insert" =>
          \A k \in job[t].keys : k < 0 => k \notin DOMAIN History(t, FactRow[job[t].item].client)

\* The lock invariant.
LockInv ==
    /\ Exclusive /\ RowsLocked
    /\ \A t \in Loads : MarksLocked(t) /\ StopgapsLocked(t)

(***************************************************************************)
(* What the theorems on committed histories and facts assume of the log,    *)
(* the reloads and the seeds.                                               *)
(***************************************************************************)

\* The clients that the log changes.
Changing == {Wal[l].client : l \in Lsns}

\* ADR-2: a client that changes has its baseline by then, or needs none.
BaselinesComeFirst ==
    \A c \in Changing : c \in ProfileClients => c \in Seeded \cup Excluded

\* The facts are of clients that have their baseline, or that do not change.
FactsOfKnownClients ==
    \A x \in Facts : FactRow[x].client \in Changing => FactRow[x].client \in Seeded

\* A client whose baseline is committed at first keeps it, and one that does
\* not change has no row above it.
KnownClients ==
    /\ \A c \in Seeded : 0 \in DOMAIN db.snap[c]
    /\ \A c \in Clients \ Changing : \A l \in DOMAIN db.snap[c] : l <= 0

\* Nor does a load write one, or delete a baseline.
StaysKnown(t) ==
    /\ \A c \in Clients : 0 \notin own[t].rows[c].gone
    /\ \A c \in Clients \ Changing : \A l \in DOMAIN own[t].rows[c].put : l <= 0
    /\ at[t] = "reset" => \A k \in job[t].keys : k > 0
    /\ at[t] \in {"repoint", "delete"} => \A k \in job[t].keys : k < 0
    /\ at[t] \in {"allocate", "insert"} =>
          FactRow[job[t].item].client \notin Seeded \cup Changing
    /\ at[t] = "insert" => \A k \in job[t].keys : k < 0

\* The invariant of stopgaps.
KnownInv == KnownClients /\ \A t \in Loads : StaysKnown(t)

\* The history of a client that changes: its baseline if it has one, and changes
\* up to the mark, none of them a delete of nothing.
SoundHistory(c, H, mark) ==
    /\ Tiled(H)
    /\ \A l \in DOMAIN H : l >= 0
    /\ 0 \in DOMAIN H <=> c \in Seeded
    /\ \A l \in Newest(H) : H[l].is_current
    /\ \A l \in DOMAIN H : l > 0 => l \in LsnsOf(c) /\ l <= mark
    /\ \A l \in DOMAIN H : l > 0 /\ Wal[l].op = "delete" => \E k \in DOMAIN H : k < l

\* The history of one that does not: stopgaps and an open baseline.
QuietHistory(H) ==
    \A l \in DOMAIN H :
        /\ l <= 0
        /\ l = 0 => H[l].is_current /\ H[l].valid_from = Epoch /\ H[l].valid_to = Forever
        /\ l < 0 => ~ H[l].is_current

\* Why a change that the mark has passed may not be on record.
Quarantined(rejected, l) == <<"delete_with_no_baseline", l>> \in rejected

Excused(rejected, l) == Overtaken(l) \/ NotReplayed(l) \/ Quarantined(rejected, l)

CommittedSound ==
    /\ \A c \in Clients :
          /\ c \in Changing => SoundHistory(c, db.snap[c], db.wm[c])
          /\ c \notin Changing => QuietHistory(db.snap[c])
          /\ db.wm[c] \in {None} \cup (LsnsOf(c) \cap DOMAIN db.snap[c])
    /\ \A l \in Lsns :
          /\ <<"stale_lsn", l>> \in db.rejected => l <= db.wm[Wal[l].client]
          /\ l <= db.wm[Wal[l].client] =>
                l \in DOMAIN db.snap[Wal[l].client] \/ Excused(db.rejected, l)

\* What a load that has written edit reads of base, and the mark it reads.
Read(base, edit) == Overlay(Delete(base, edit.gone), edit.put)

MarkIn(writes, c) == IF c \in DOMAIN writes.marks THEN writes.marks[c] ELSE db.wm[c]

\* The clients whose replay a reload has begun.
ResetAt(t, step, work) ==
    IF Kind[t] = "reload" /\ step \notin {"ready", "committed"} \cup Failures
    THEN DOMAIN ReloadFrom \ work.pending ELSE {}

ResetBy(t) == ResetAt(t, at[t], job[t])

\* A mark written is on record, or a reload's that has its first change to come.
MarkFits(t, c, work, writes) ==
    LET mark == writes.marks[c]
        H == Read(db.snap[c], writes.rows[c])
    IN  \/ /\ mark \in LsnsOf(c) \cap DOMAIN H
           /\ Kind[t] # "reload" => db.wm[c] <= mark
        \/ /\ Kind[t] = "reload" /\ mark = ReloadFrom[c] - 1 /\ db.wm[c] # None
           /\ ReloadFrom[c] \in work.events \/ DOMAIN H = {}

\* A change below the mark is on record or excused, a stale one is below it.
ChangeFits(t, l, step, work, writes) ==
    LET c == Wal[l].client IN
    /\ <<"stale_lsn", l>> \in writes.rejected => l <= MarkIn(writes, c)
    /\ l <= MarkIn(writes, c) =>
          \/ l \in DOMAIN Read(db.snap[c], writes.rows[c])
          \/ Excused(db.rejected \cup writes.rejected, l)
          \/ c \in ResetAt(t, step, work) /\ l < ReloadFrom[c]

\* A load's view of the histories, and what it has written of them.
ViewSound(t) ==
    /\ \A c \in Clients :
          /\ c \in Changing => SoundHistory(c, History(t, c), Mark(t, c))
          /\ c \in Changing /\ ~ HoldsApply(t, c) => Touched(own[t].rows[c]) = {}
          /\ c \notin Changing => QuietHistory(own[t].rows[c].put)
          /\ c \in Changing => \A r \in DOMAIN db.snap[c] :
                r \in DOMAIN History(t, c) \/ (Kind[t] = "reload" /\ r \in job[t].events)
    /\ \A c \in DOMAIN own[t].marks : MarkFits(t, c, job[t], own[t])
    /\ \A l \in Lsns : ChangeFits(t, l, at[t], job[t], own[t])

\* What is left to do: an apply's mark has passed every change not on its list,
\* or a delete of nothing; a reload has recorded those it replays, or such.
WorkSound(t) ==
    /\ at[t] = "apply" =>
          /\ job[t].item \in FirstEvent(t)
          /\ Wal[job[t].item].op = "delete" => DOMAIN History(t, Wal[job[t].item].client) # {}
    /\ at[t] = "reset" =>
          job[t].keys = {l \in DOMAIN History(t, job[t].item) : l >= ReloadFrom[job[t].item]}
    /\ Kind[t] = "apply" /\ Running(t) =>
          \A k \in Lsns : \/ k \in job[t].events \/ k <= Mark(t, Wal[k].client)
                          \/ Quarantined(own[t].rejected, k)
    /\ Kind[t] = "reload" =>
          /\ DOMAIN own[t].marks \subseteq ResetBy(t)
          /\ \A k \in Lsns : <<"stale_lsn", k>> \notin own[t].rejected
          /\ \A k \in Lsns : Wal[k].client \in ResetBy(t) /\ k >= ReloadFrom[Wal[k].client] =>
                \/ k \in job[t].events
                \/ k \in DOMAIN History(t, Wal[k].client)
                \/ Quarantined(own[t].rejected, k)
          /\ \A k \in job[t].events : /\ k > Mark(t, Wal[k].client)
                                      /\ Wal[k].client \in ResetBy(t)
                                      /\ k >= ReloadFrom[Wal[k].client]
    /\ Kind[t] = "seed" =>
          /\ job[t].pending \cap Changing \subseteq Seeded
          /\ at[t] \in {"repoint", "delete"} => job[t].item \notin Changing
    /\ at[t] \in {"allocate", "insert"} => FactRow[job[t].item].client \notin Changing

\* The invariant of histories.
HistoryInv == CommittedSound /\ \A t \in Loads : ViewSound(t) /\ WorkSound(t)

\* What the theorem on facts assumes besides: facts are of clients that do not
\* change, and happen before the end of time.
FactsAreSettled ==
    \A x \in Facts : FactRow[x].client \notin Changing /\ FactRow[x].event_ts < Forever

\* Version l of H is in effect at fact x's date.
Covers(H, x, l) == l \in Covering(H, FactRow[x].event_ts)

\* Which loads write what of a client that does not change: a seed adds a
\* baseline and deletes stopgaps, a fact load adds stopgaps, the others none.
OfKind(t, base, edit) ==
    /\ DOMAIN edit.put \cap DOMAIN base = {}
    /\ edit.gone \subseteq DOMAIN base
    /\ Kind[t] # "facts" => DOMAIN edit.put \subseteq {0}
    /\ Kind[t] # "seed" => edit.gone = {}
    /\ edit.gone # {} => 0 \in DOMAIN base \cup DOMAIN edit.put
    /\ \A l \in edit.gone : l < 0

WritesOfKind(t) ==
    \A c \in Clients \ Changing : OfKind(t, db.snap[c], own[t].rows[c])

\* Nobody's fact of client c is on row l, nor is one being pinned to it.
Unpinned(t, c, l) ==
    /\ \A x \in DOMAIN Pins(t) : FactRow[x].client = c => Pins(t)[x] # l
    /\ \A u \in Loads \ {t} : \A x \in DOMAIN own[u].pins :
          FactRow[x].client = c => own[u].pins[x] # l

\* What a load deletes, no fact is on, and nobody pins one to.
NothingOnDeleted(t) ==
    \A c \in Clients \ Changing : \A l \in own[t].rows[c].gone : Unpinned(t, c, l)

\* A fact is pinned to a version in effect, while the load that does it looks
\* for one, when it has written it, and when that is committed.
PinsCover(t) ==
    /\ \A x \in DOMAIN own[t].pins : Covers(History(t, FactRow[x].client), x, own[t].pins[x])
    /\ \A u \in Loads \ {t} : DOMAIN own[t].pins \cap DOMAIN own[u].pins = {}
    /\ at[t] = "pin" =>
          \A c \in Clients : \A l \in job[t].keys : FactRow[job[t].item].client = c =>
              Covers(History(t, c), job[t].item, l)
    /\ at[t] \in {"repoint", "delete"} => /\ 0 \in DOMAIN History(t, job[t].item)
                                          /\ \A l \in job[t].keys : l < 0

\* The invariant of facts.
FactInv ==
    /\ \A x \in DOMAIN db.fact : Covers(db.snap[FactRow[x].client], x, db.fact[x])
    /\ \A t \in Loads : WritesOfKind(t) /\ NothingOnDeleted(t) /\ PinsCover(t)

----------------------------------------------------------------------------
(* Functions on part of a set.                                              *)

\* What it is to be one of them.
LEMMA PartialIs ==
    ASSUME NEW D, NEW R, NEW f
    PROVE  f \in Partial(D, R) <=>
               /\ f = [x \in DOMAIN f |-> f[x]]
               /\ DOMAIN f \subseteq D
               /\ \A x \in DOMAIN f : f[x] \in R
BY DEF Partial

\* A history is one of them.
LEMMA HistoryIs ==
    ASSUME NEW H
    PROVE  H \in Histories <=> IsHistory(H)
BY PartialIs DEF Histories, IsHistory

\* Statements read one of them overlaid with another.
LEMMA OverlayIs ==
    ASSUME NEW f, NEW g
    PROVE  /\ DOMAIN Overlay(f, g) = DOMAIN f \cup DOMAIN g
           /\ \A x \in DOMAIN f \cup DOMAIN g :
                  Overlay(f, g)[x] = IF x \in DOMAIN g THEN g[x] ELSE f[x]
BY DEF Overlay

\* An overlay of two partial functions is one.
LEMMA OverlayPartial ==
    ASSUME NEW D, NEW R, NEW f \in Partial(D, R), NEW g \in Partial(D, R)
    PROVE  Overlay(f, g) \in Partial(D, R)
<1>1. /\ DOMAIN f \subseteq D /\ \A x \in DOMAIN f : f[x] \in R
      /\ DOMAIN g \subseteq D /\ \A x \in DOMAIN g : g[x] \in R
  BY PartialIs
<1>2. Overlay(f, g) \in [DOMAIN f \cup DOMAIN g -> R]
  BY <1>1 DEF Overlay
<1> QED BY <1>1, <1>2 DEF Partial

----------------------------------------------------------------------------
(* What a transaction reads of a history and writes to it.                  *)

\* What is written to make H of base.
Edit(base, H) ==
    [put |-> [l \in {m \in DOMAIN H : m \notin DOMAIN base \/ H[m] # base[m]} |-> H[l]],
     gone |-> DOMAIN base \ DOMAIN H]

\* History in these terms.
LEMMA HistoryReads ==
    ASSUME NEW t, NEW c
    PROVE  History(t, c) = Read(db.snap[c], own[t].rows[c])
BY DEF History, Read

\* A read is a history with the rows that are there and not deleted, or written.
LEMMA ReadType ==
    ASSUME NEW base \in Histories, NEW edit \in Edits
    PROVE  /\ IsHistory(Read(base, edit)) /\ Read(base, edit) \in Histories
           /\ DOMAIN Read(base, edit) = (DOMAIN base \ edit.gone) \cup DOMAIN edit.put
           /\ \A l \in DOMAIN Read(base, edit) :
                  Read(base, edit)[l] = IF l \in DOMAIN edit.put THEN edit.put[l] ELSE base[l]
<1> DEFINE rest == Delete(base, edit.gone)
<1>1. edit.put \in Histories /\ edit.gone \in SUBSET Int /\ IsHistory(base)
  BY HistoryIs DEF Edits
<1>2. /\ IsHistory(rest) /\ DOMAIN rest = DOMAIN base \ edit.gone
      /\ \A l \in DOMAIN rest : rest[l] = base[l]
  BY <1>1, DeleteType DEF Delete
<1> HIDE DEF rest
<1>3. rest \in Partial(Int, Version) /\ edit.put \in Partial(Int, Version)
  BY <1>1, <1>2, HistoryIs DEF Histories
<1>4. /\ Overlay(rest, edit.put) \in Partial(Int, Version)
      /\ DOMAIN Overlay(rest, edit.put) = DOMAIN rest \cup DOMAIN edit.put
      /\ \A x \in DOMAIN rest \cup DOMAIN edit.put :
                  Overlay(rest, edit.put)[x] = IF x \in DOMAIN edit.put THEN edit.put[x] ELSE rest[x]
  BY <1>3, OverlayIs, OverlayPartial
<1>5. Read(base, edit) = Overlay(rest, edit.put)
  BY DEF Read, rest
<1> QED BY <1>2, <1>4, <1>5, HistoryIs DEF Histories

\* Writing a history down and reading it again gives it back, and touches
\* only where it differs from what is committed.
LEMMA EditType ==
    ASSUME NEW base \in Histories, NEW H, IsHistory(H)
    PROVE  /\ Edit(base, H) \in Edits
           /\ Read(base, Edit(base, H)) = H
           /\ DOMAIN Edit(base, H).put = {l \in DOMAIN H : l \notin DOMAIN base \/ H[l] # base[l]}
           /\ \A l \in DOMAIN Edit(base, H).put : Edit(base, H).put[l] = H[l]
           /\ Edit(base, H).gone = DOMAIN base \ DOMAIN H
<1> DEFINE put == [l \in {m \in DOMAIN H : m \notin DOMAIN base \/ H[m] # base[m]} |-> H[l]]
           gone == DOMAIN base \ DOMAIN H
<1>1. /\ IsHistory(put) /\ DOMAIN put = {l \in DOMAIN H : l \notin DOMAIN base \/ H[l] # base[l]}
      /\ \A l \in DOMAIN put : put[l] = H[l]
  BY DEF IsHistory
<1>2. gone \in SUBSET Int
  BY HistoryIs DEF IsHistory
<1>3. Edit(base, H) = [put |-> put, gone |-> gone]
  BY DEF Edit
<1> HIDE DEF put
<1>4. put \in Histories
  BY <1>1, HistoryIs
<1> HIDE DEF gone
<1>5. Edit(base, H) \in Edits /\ Edit(base, H).put = put /\ Edit(base, H).gone = gone
  BY <1>2, <1>3, <1>4 DEF Edits
<1> DEFINE E == Edit(base, H)
           R == Read(base, E)
<1>6. /\ IsHistory(R) /\ DOMAIN R = (DOMAIN base \ gone) \cup DOMAIN put
      /\ \A l \in DOMAIN R : R[l] = IF l \in DOMAIN put THEN put[l] ELSE base[l]
  <2>1. E \in Edits /\ E.put = put /\ E.gone = gone
    BY <1>5
  <2> HIDE DEF E
  <2>2. /\ IsHistory(R)
        /\ DOMAIN R = (DOMAIN base \ E.gone) \cup DOMAIN E.put
        /\ \A l \in DOMAIN R : R[l] = IF l \in DOMAIN E.put THEN E.put[l] ELSE base[l]
    <3>1. E \in Edits
      BY <2>1
    <3> QED BY ONLY <3>1, ReadType, base \in Histories
  <2> HIDE DEF R
  <2> QED BY <2>1, <2>2
<1> HIDE DEF R
<1>7. DOMAIN R = DOMAIN H
  BY <1>1, <1>6 DEF gone
<1>8. \A l \in DOMAIN H : R[l] = H[l]
  BY <1>1, <1>6, <1>7
<1>9. R = H
  <2>1. R = [l \in DOMAIN H |-> R[l]] /\ H = [l \in DOMAIN H |-> H[l]]
    BY <1>6, <1>7 DEF IsHistory
  <2>2. [l \in DOMAIN H |-> R[l]] = [l \in DOMAIN H |-> H[l]]
    BY <1>8, Zenon
  <2> QED BY <2>1, <2>2
<1> QED BY <1>1, <1>5, <1>9 DEF R, E, gone

----------------------------------------------------------------------------
(* Steps as what they do to the variables of the load that takes them.      *)

\* Load t's variables become these, and no other load's change.
Moved(t, step, work, writes, held) ==
    /\ at' = [at EXCEPT ![t] = step]
    /\ job' = [job EXCEPT ![t] = work]
    /\ own' = [own EXCEPT ![t] = writes]
    /\ locks' = [locks EXCEPT ![t] = held]

\* Nobody else's variables change.
LEMMA MovedOnly ==
    ASSUME Shape, NEW t \in Loads, NEW step, NEW work, NEW writes, NEW held,
           Moved(t, step, work, writes, held)
    PROVE  /\ at'[t] = step /\ job'[t] = work /\ own'[t] = writes /\ locks'[t] = held
           /\ \A u \in Loads \ {t} : /\ at'[u] = at[u] /\ job'[u] = job[u]
                                     /\ own'[u] = own[u] /\ locks'[u] = locks[u]
           /\ locks' = [u \in Loads |-> locks'[u]]
BY DEF Shape, Moved

\* What stays as it is, is set to what it is.
LEMMA Unmoved ==
    ASSUME Shape, NEW t \in Loads
    PROVE  /\ own = [own EXCEPT ![t] = own[t]]
           /\ locks = [locks EXCEPT ![t] = locks[t]]
           /\ job = [job EXCEPT ![t] = job[t]]
<1>1. /\ own = [u \in Loads |-> own[u]] /\ job = [u \in Loads |-> job[u]]
      /\ locks = [u \in Loads |-> locks[u]]
  BY DEF Shape
<1> QED BY <1>1

\* Starting a load.
LEMMA StartMoves ==
    ASSUME Shape, NEW t \in Loads, NEW kind, NEW work, Start(t, kind, work)
    PROVE  /\ at[t] = "ready" /\ Kind[t] = kind /\ UNCHANGED db
           /\ Moved(t, "next", work, own[t], locks[t])
BY Unmoved DEF Start, Go, Moved

\* Ending one.
LEMMA EndMoves ==
    ASSUME Shape, NEW t \in Loads, NEW outcome, End(t, outcome)
    PROVE  Moved(t, outcome, NoWork, NoWrites, {})
BY DEF End, Go, ReleaseLocks, Moved

\* Going on, with nothing written and no lock taken.
LEMMA GoMoves ==
    ASSUME Shape, NEW t \in Loads, NEW step, NEW work, Go(t, step, work), UNCHANGED <<own, locks>>
    PROVE  Moved(t, step, work, own[t], locks[t])
BY Unmoved DEF Go, Moved

\* A load's writes with one more change quarantined.
Quarantining(t, q) == [own[t] EXCEPT !.rejected = @ \cup {q}]

\* What LockEvent does: a delete of nothing is quarantined, any other change is
\* next.
LEMMA LockEventMoves ==
    ASSUME Shape, NEW t \in Loads, NEW l \in Lsns, LockEvent(t, l)
    PROVE  /\ at[t] = "next" /\ l \in FirstEvent(t) /\ Free(t) /\ UNCHANGED db
           /\ \/ /\ Wal[l].op = "delete" /\ DOMAIN History(t, Wal[l].client) = {}
                 /\ Moved(t, "next", [job[t] EXCEPT !.events = @ \ {l}],
                          Quarantining(t, <<"delete_with_no_baseline", l>>),
                          locks[t] \cup ApplyLock(Wal[l].client))
              \/ /\ ~ (Wal[l].op = "delete" /\ DOMAIN History(t, Wal[l].client) = {})
                 /\ Moved(t, "apply",
                          [job[t] EXCEPT !.item = l, !.seen = Mark(t, Wal[l].client)], own[t],
                          locks[t] \cup MarkRow(Wal[l].client)
                              \cup IF Kind[t] = "apply" THEN ApplyLock(Wal[l].client) ELSE {})
<1>1. at[t] = "next" /\ l \in FirstEvent(t) /\ Free(t) /\ UNCHANGED db
  BY DEF LockEvent
<1>2. CASE Wal[l].op = "delete" /\ DOMAIN History(t, Wal[l].client) = {}
  <2>1. own' = [own EXCEPT ![t] = Quarantining(t, <<"delete_with_no_baseline", l>>)]
    BY <1>2 DEF LockEvent, Quarantining, Shape
  <2> QED BY <1>1, <1>2, <2>1 DEF LockEvent, Go, Moved
<1>3. CASE ~ (Wal[l].op = "delete" /\ DOMAIN History(t, Wal[l].client) = {})
  <2>1. own' = [own EXCEPT ![t] = own[t]]
    BY <1>3, Unmoved DEF LockEvent
  <2> QED BY <1>1, <1>3, <2>1 DEF LockEvent, Go, Moved
<1> QED BY <1>2, <1>3

\* A load's work once its change is done.
After(t) == [job[t] EXCEPT !.events = @ \ {job[t].item}, !.item = None, !.seen = None]

\* What RejectStale does.
LEMMA RejectMoves ==
    ASSUME Shape, NEW t \in Loads, RejectStale(t)
    PROVE  /\ at[t] = "apply" /\ job[t].item <= job[t].seen /\ UNCHANGED db
           /\ Moved(t, "next", After(t), Quarantining(t, <<"stale_lsn", job[t].item>>), locks[t])
<1>1. own' = [own EXCEPT ![t] = Quarantining(t, <<"stale_lsn", job[t].item>>)]
  BY DEF RejectStale, Shape, Quarantining
<1>2. locks' = [locks EXCEPT ![t] = locks[t]]
  BY Unmoved DEF RejectStale
<1> QED BY <1>1, <1>2 DEF RejectStale, EventDone, Go, Moved, After

\* The history with the load's change appended.
Appended(t) ==
    LET l == job[t].item
        c == Wal[l].client
        H == History(t, c)
    IN  IF Wal[l].op = "delete" THEN ApplyDelete(H, l, Wal[l].commit_ts)
        ELSE ApplyUpsert(H, l, Wal[l].commit_ts, <<l, 1>>)

\* The load's writes, with client c's history H and the marks beside.
MarkedAs(t, c, H, marks) == [Writing(t, c, H) EXCEPT !.marks = Overlay(@, marks)]

\* What ApplyEvent does: it collides, or it appends and moves the mark.
LEMMA ApplyMoves ==
    ASSUME Shape, NEW t \in Loads, ApplyEvent(t)
    PROVE  /\ at[t] = "apply" /\ job[t].item > job[t].seen /\ Free(t) /\ UNCHANGED db
           /\ \/ Collides(t) /\ Moved(t, "duplicate_watermark", NoWork, NoWrites, {})
              \/ /\ ~ Collides(t)
                 /\ Moved(t, "next", After(t),
                          MarkedAs(t, Wal[job[t].item].client, Appended(t),
                                   [d \in {Wal[job[t].item].client} |-> job[t].item]),
                          locks[t])
<1>1. at[t] = "apply" /\ job[t].item > job[t].seen /\ Free(t)
  BY Zenon DEF ApplyEvent
<1>2. CASE Collides(t) /\ Fail(t, "duplicate_watermark")
  BY <1>1, <1>2, EndMoves DEF Fail
<1>3. CASE ~ (Collides(t) /\ Fail(t, "duplicate_watermark"))
  <2>1. /\ ~ Collides(t) /\ EventDone(t) /\ UNCHANGED <<db, locks>>
        /\ own' = [own EXCEPT ![t] = MarkedAs(t, Wal[job[t].item].client, Appended(t),
                                   [d \in {Wal[job[t].item].client} |-> job[t].item])]
    BY <1>3, Zenon DEF ApplyEvent, MarkedAs, Appended
  <2>2. locks' = [locks EXCEPT ![t] = locks[t]]
    BY <2>1, Unmoved
  <2> QED BY <1>1, <2>1, <2>2, Zenon DEF EventDone, Go, Moved, After
<1> QED BY <1>2, <1>3

\* What LockForReset does: it fixes the rows that the reset is to delete.
LEMMA LockForResetMoves ==
    ASSUME Shape, NEW t \in Loads, NEW c \in Clients, LockForReset(t, c)
    PROVE  /\ at[t] = "next" /\ Kind[t] = "reload" /\ job[t].events = {}
           /\ c \in FirstClient(t) /\ Free(t) /\ UNCHANGED db
           /\ Moved(t, "reset",
                    [job[t] EXCEPT !.item = c,
                                   !.keys = {l \in DOMAIN History(t, c) : l >= ReloadFrom[c]}],
                    own[t], locks[t] \cup ReloadLock(c))
<1>1. own' = [own EXCEPT ![t] = own[t]]
  BY Unmoved DEF LockForReset
<1> QED BY <1>1 DEF LockForReset, Go, Moved

\* What a reset leaves, rows that came after its snapshot included.
Remaining(t) ==
    LET c == job[t].item
        from == ReloadFrom[c]
        H == History(t, c)
        missed == {l \in DOMAIN H : l >= from} \ job[t].keys
    IN  Overlay(ResetFrom(H, from), [l \in missed |-> H[l]])

\* The mark it sets back, if there is one.
RolledBack(t) ==
    LET c == job[t].item
    IN  [d \in IF Mark(t, c) = None THEN {} ELSE {c} |-> ReloadFrom[c] - 1]

\* What Reset does.
LEMMA ResetMoves ==
    ASSUME Shape, NEW t \in Loads, Reset(t)
    PROVE  /\ at[t] = "reset" /\ Free(t) /\ UNCHANGED db
           /\ Moved(t, "next",
                    [job[t] EXCEPT
                         !.pending = @ \ {job[t].item}, !.item = None, !.keys = {},
                         !.events = {l \in Lsns : Wal[l].client = job[t].item
                                                      /\ l >= ReloadFrom[job[t].item]}],
                    MarkedAs(t, job[t].item, Remaining(t), RolledBack(t)), locks[t])
<1>1. locks' = [locks EXCEPT ![t] = locks[t]]
  BY Unmoved DEF Reset
<1>2. own' = [own EXCEPT ![t] = MarkedAs(t, job[t].item, Remaining(t), RolledBack(t))]
  BY DEF Reset, MarkedAs, Remaining, RolledBack
<1> QED BY <1>1, <1>2 DEF Reset, Go, Moved

\* A seed's work once a client is done.
Passed(t, c) == [job[t] EXCEPT !.pending = @ \ {c}, !.item = None, !.keys = {}]

\* What CheckHistory does: a client with changes is passed over.
LEMMA CheckHistoryMoves ==
    ASSUME Shape, NEW t \in Loads, NEW c \in Clients, CheckHistory(t, c)
    PROVE  /\ at[t] = "next" /\ Kind[t] = "seed" /\ c \in job[t].pending /\ UNCHANGED db
           /\ \/ Moved(t, "next", Passed(t, c), own[t], locks[t])
              \/ /\ \A l \in DOMAIN History(t, c) : ~ (l > 0)
                 /\ Moved(t, "baseline", [job[t] EXCEPT !.item = c], own[t], locks[t])
BY GoMoves DEF CheckHistory, ClientDone, Passed

Stopgaps(H) == {l \in DOMAIN H : l < 0}

WithBaseline(t) ==
    Insert(History(t, job[t].item), 0,
           BaselineRow(IF job[t].orphans THEN UnknownAttrs ELSE ProfileAttrs))

\* What InsertBaseline does.
LEMMA BaselineMoves ==
    ASSUME Shape, NEW t \in Loads, InsertBaseline(t)
    PROVE  /\ at[t] = "baseline" /\ Free(t) /\ UNCHANGED db
           /\ \/ Moved(t, "next", Passed(t, job[t].item),
                       Writing(t, job[t].item, WithBaseline(t)), locks[t])
              \/ /\ Stopgaps(History(t, job[t].item)) # {}
                 /\ Moved(t, "repoint",
                          [job[t] EXCEPT !.keys = Stopgaps(History(t, job[t].item))],
                          Writing(t, job[t].item, WithBaseline(t)), locks[t])
<1>1. locks' = [locks EXCEPT ![t] = locks[t]]
  BY Unmoved DEF InsertBaseline
<1>2. own' = [own EXCEPT ![t] = Writing(t, job[t].item, WithBaseline(t))]
  BY DEF InsertBaseline, WithBaseline
<1> QED BY <1>1, <1>2 DEF InsertBaseline, ClientDone, Go, Moved, Passed, Stopgaps

\* The load's writes, with the facts X pinned to version l.
PinnedAs(t, X, l) == [own[t] EXCEPT !.pins = Overlay(@, [x \in X |-> l])]

\* What Repoint does.
LEMMA RepointMoves ==
    ASSUME Shape, NEW t \in Loads, Repoint(t)
    PROVE  /\ at[t] = "repoint" /\ Free(t) /\ UNCHANGED db
           /\ Moved(t, "delete", job[t],
                    PinnedAs(t, PinnedTo(t, job[t].item, job[t].keys), 0), locks[t])
<1>1. locks' = [locks EXCEPT ![t] = locks[t]]
  BY Unmoved DEF Repoint
<1>2. own' = [own EXCEPT ![t] = PinnedAs(t, PinnedTo(t, job[t].item, job[t].keys), 0)]
  BY DEF Repoint, Shape, PinnedAs
<1> QED BY <1>1, <1>2 DEF Repoint, Go, Moved

\* What DeleteStopgaps does: a fact on one of them, or they go.
LEMMA DeleteMoves ==
    ASSUME Shape, NEW t \in Loads, DeleteStopgaps(t)
    PROVE  /\ at[t] = "delete" /\ Free(t) /\ UNCHANGED db
           /\ \/ Moved(t, "foreign_key", NoWork, NoWrites, {})
              \/ /\ PinnedTo(t, job[t].item, job[t].keys) = {}
                 /\ Moved(t, "next", Passed(t, job[t].item),
                          Writing(t, job[t].item,
                                  Delete(History(t, job[t].item), job[t].keys)), locks[t])
<1>1. at[t] = "delete" /\ Free(t)
  BY DEF DeleteStopgaps
<1>2. CASE Fail(t, "foreign_key")
  BY <1>1, <1>2, EndMoves DEF Fail
<1>3. CASE ~ Fail(t, "foreign_key")
  <2>1. /\ PinnedTo(t, job[t].item, job[t].keys) = {}
        /\ ClientDone(t, job[t].item) /\ UNCHANGED <<db, locks>>
        /\ own' = [own EXCEPT ![t] = Writing(t, job[t].item,
                                  Delete(History(t, job[t].item), job[t].keys))]
    BY <1>3 DEF DeleteStopgaps
  <2>2. locks' = [locks EXCEPT ![t] = locks[t]]
    BY <2>1, Unmoved
  <2> QED BY <1>1, <2>1, <2>2 DEF ClientDone, Go, Moved, Passed
<1> QED BY <1>2, <1>3

\* What BeginOrphans does.
LEMMA OrphansMoves ==
    ASSUME Shape, NEW t \in Loads, BeginOrphans(t)
    PROVE  /\ at[t] = "next" /\ Kind[t] = "seed" /\ job[t].pending = {} /\ UNCHANGED db
           /\ Moved(t, "next",
                    [job[t] EXCEPT
                         !.orphans = TRUE,
                         !.pending = {c \in Clients : \E l \in DOMAIN History(t, c) : l < 0}
                                         \ (ProfileClients \cup Excluded)],
                    own[t], locks[t])
BY GoMoves DEF BeginOrphans

\* The versions that _resolve_risk_snapshot_key finds for fact x.
FoundFor(t, x) == Covering(History(t, FactRow[x].client), FactRow[x].event_ts)

\* What Resolve does: a version that covers the fact's date, or a stopgap.
LEMMA ResolveMoves ==
    ASSUME Shape, NEW t \in Loads, NEW x \in Facts, Resolve(t, x)
    PROVE  /\ at[t] = "next" /\ x \in job[t].left /\ UNCHANGED db
           /\ \/ \E l \in FoundFor(t, x) :
                    Moved(t, "pin", [job[t] EXCEPT !.item = x, !.keys = {l}], own[t], locks[t])
              \/ Moved(t, "stopgap", [job[t] EXCEPT !.item = x], own[t], locks[t])
BY GoMoves DEF Resolve, FoundFor

HistoryOfItem(t) == History(t, FactRow[job[t].item].client)

\* What LockStopgap does: real history that does not cover the fact's date, or
\* the stopgaps' lock.
LEMMA LockStopgapMoves ==
    ASSUME Shape, NEW t \in Loads, LockStopgap(t)
    PROVE  /\ at[t] = "stopgap" /\ Free(t) /\ UNCHANGED db
           /\ \/ Moved(t, "uncovered", NoWork, NoWrites, {})
              \/ /\ \A l \in DOMAIN HistoryOfItem(t) : l < 0
                 /\ Moved(t, "allocate", job[t], own[t],
                          locks[t] \cup StopgapLock(FactRow[job[t].item].client))
<1>1. at[t] = "stopgap" /\ Free(t)
  BY DEF LockStopgap
<1>2. CASE Fail(t, "uncovered")
  BY <1>1, <1>2, EndMoves DEF Fail
<1>3. CASE ~ Fail(t, "uncovered")
  <2>1. /\ \A l \in DOMAIN HistoryOfItem(t) : l < 0
        /\ Go(t, "allocate", job[t])
        /\ locks' = [locks EXCEPT ![t] = locks[t] \cup StopgapLock(FactRow[job[t].item].client)]
        /\ UNCHANGED <<db, own>>
    BY <1>3 DEF LockStopgap, HistoryOfItem
  <2>2. own' = [own EXCEPT ![t] = own[t]]
    BY <2>1, Unmoved
  <2> QED BY <1>1, <2>1, <2>2 DEF Go, Moved
<1> QED BY <1>2, <1>3

\* What AllocateStopgap does.
LEMMA AllocateMoves ==
    ASSUME Shape, NEW t \in Loads, AllocateStopgap(t)
    PROVE  /\ at[t] = "allocate" /\ UNCHANGED db
           /\ Moved(t, "insert", [job[t] EXCEPT !.keys = StopgapLsns(HistoryOfItem(t))], own[t],
                    locks[t])
BY GoMoves DEF AllocateStopgap, HistoryOfItem

WithStopgap(t, lsn) ==
    Insert(HistoryOfItem(t), lsn, StopgapRow(FactRow[job[t].item].event_ts))

\* What InsertStopgap does.
LEMMA InsertStopgapMoves ==
    ASSUME Shape, NEW t \in Loads, InsertStopgap(t)
    PROVE  /\ at[t] = "insert" /\ Free(t) /\ UNCHANGED db
           /\ \E lsn \in job[t].keys :
                 \/ /\ Covering(WithStopgap(t, lsn), FactRow[job[t].item].event_ts) = {}
                    /\ Moved(t, "unresolved", NoWork, NoWrites, {})
                 \/ \E l \in Covering(WithStopgap(t, lsn), FactRow[job[t].item].event_ts) :
                       Moved(t, "pin", [job[t] EXCEPT !.keys = {l}],
                             Writing(t, FactRow[job[t].item].client, WithStopgap(t, lsn)),
                             locks[t])
<1> DEFINE ts == FactRow[job[t].item].event_ts
<1>1. at[t] = "insert" /\ Free(t)
  BY DEF InsertStopgap
<1>2. PICK lsn \in job[t].keys :
          \/ Covering(WithStopgap(t, lsn), ts) = {} /\ Fail(t, "unresolved")
          \/ \E l \in Covering(WithStopgap(t, lsn), ts) :
                /\ own' = [own EXCEPT ![t] = Writing(t, FactRow[job[t].item].client, WithStopgap(t, lsn))]
                /\ Go(t, "pin", [job[t] EXCEPT !.keys = {l}])
                /\ UNCHANGED <<db, locks>>
  BY DEF InsertStopgap, WithStopgap, HistoryOfItem
<1>3. CASE Covering(WithStopgap(t, lsn), ts) = {} /\ Fail(t, "unresolved")
  BY <1>1, <1>3, EndMoves DEF Fail
<1>4. ASSUME NEW l \in Covering(WithStopgap(t, lsn), ts),
             own' = [own EXCEPT ![t] = Writing(t, FactRow[job[t].item].client, WithStopgap(t, lsn))],
             Go(t, "pin", [job[t] EXCEPT !.keys = {l}]),
             UNCHANGED <<db, locks>>
      PROVE  Moved(t, "pin", [job[t] EXCEPT !.keys = {l}],
                   Writing(t, FactRow[job[t].item].client, WithStopgap(t, lsn)), locks[t])
  <2>1. locks' = [locks EXCEPT ![t] = locks[t]]
    BY <1>4, Unmoved
  <2> QED BY <1>4, <2>1 DEF Go, Moved
<1> QED BY <1>1, <1>2, <1>3, <1>4

\* What PinFact does: the version is gone, or the fact is pinned to it.
LEMMA PinMoves ==
    ASSUME Shape, NEW t \in Loads, PinFact(t)
    PROVE  /\ at[t] = "pin" /\ Free(t) /\ UNCHANGED db
           /\ \/ Moved(t, "foreign_key", NoWork, NoWrites, {})
              \/ \E l \in job[t].keys :
                    Moved(t, "next",
                          [job[t] EXCEPT !.left = @ \ {job[t].item}, !.item = None, !.keys = {}],
                          PinnedAs(t, {job[t].item}, l), locks[t])
<1>1. at[t] = "pin" /\ Free(t)
  BY DEF PinFact
<1>2. CASE Fail(t, "foreign_key")
  BY <1>1, <1>2, EndMoves DEF Fail
<1>3. CASE ~ Fail(t, "foreign_key")
  <2>1. PICK l \in job[t].keys :
          /\ own' = [own EXCEPT ![t].pins = Overlay(@, [y \in {job[t].item} |-> l])]
          /\ Go(t, "next", [job[t] EXCEPT !.left = @ \ {job[t].item}, !.item = None, !.keys = {}])
          /\ UNCHANGED <<db, locks>>
    BY <1>3 DEF PinFact
  <2>2. own' = [own EXCEPT ![t] = PinnedAs(t, {job[t].item}, l)]
    BY <2>1 DEF Shape, PinnedAs
  <2>3. locks' = [locks EXCEPT ![t] = locks[t]]
    BY <2>1, Unmoved
  <2> QED BY <1>1, <2>1, <2>2, <2>3 DEF Go, Moved
<1> QED BY <1>2, <1>3
----------------------------------------------------------------------------
(* The steps, with what ends a load apart from what it goes on with.        *)

Ends(t) ==
    /\ Running(t) /\ UNCHANGED db
    /\ \E why \in {"aborted", "uncovered", "foreign_key"} : Moved(t, why, NoWork, NoWrites, {})

Collision(t) ==
    /\ at[t] = "apply" /\ Collides(t) /\ UNCHANGED db
    /\ Moved(t, "duplicate_watermark", NoWork, NoWrites, {})

Applied(t) ==
    /\ at[t] = "apply" /\ job[t].item > job[t].seen /\ Free(t) /\ UNCHANGED db
    /\ Moved(t, "next", After(t),
             MarkedAs(t, Wal[job[t].item].client, Appended(t),
                      [d \in {Wal[job[t].item].client} |-> job[t].item]), locks[t])

Deleted(t) ==
    /\ at[t] = "delete" /\ Free(t) /\ UNCHANGED db
    /\ PinnedTo(t, job[t].item, job[t].keys) = {}
    /\ Moved(t, "next", Passed(t, job[t].item),
             Writing(t, job[t].item, Delete(History(t, job[t].item), job[t].keys)), locks[t])

StopgapAllowed(t) ==
    /\ at[t] = "stopgap" /\ Free(t) /\ UNCHANGED db
    /\ \A l \in DOMAIN HistoryOfItem(t) : l < 0
    /\ Moved(t, "allocate", job[t], own[t],
             locks[t] \cup StopgapLock(FactRow[job[t].item].client))

Unresolved(t) ==
    /\ at[t] = "insert" /\ UNCHANGED db
    /\ \E lsn \in job[t].keys :
          Covering(WithStopgap(t, lsn), FactRow[job[t].item].event_ts) = {}
    /\ Moved(t, "unresolved", NoWork, NoWrites, {})

StopgapInserted(t) ==
    /\ at[t] = "insert" /\ Free(t) /\ UNCHANGED db
    /\ \E lsn \in job[t].keys :
          \E l \in Covering(WithStopgap(t, lsn), FactRow[job[t].item].event_ts) :
             Moved(t, "pin", [job[t] EXCEPT !.keys = {l}],
                   Writing(t, FactRow[job[t].item].client, WithStopgap(t, lsn)), locks[t])

Pinned(t) ==
    /\ at[t] = "pin" /\ Free(t) /\ UNCHANGED db
    /\ \E l \in job[t].keys :
          Moved(t, "next",
                [job[t] EXCEPT !.left = @ \ {job[t].item}, !.item = None, !.keys = {}],
                PinnedAs(t, {job[t].item}, l), locks[t])

StepOf(t) ==
    \/ Begin(t) \/ Commit(t) \/ Ends(t) \/ Collision(t) \/ Unresolved(t)
    \/ \E l \in Lsns : LockEvent(t, l)
    \/ RejectStale(t) \/ Applied(t)
    \/ \E c \in Clients : LockForReset(t, c) \/ CheckHistory(t, c)
    \/ Reset(t) \/ InsertBaseline(t) \/ Repoint(t) \/ Deleted(t) \/ BeginOrphans(t)
    \/ \E x \in Facts : Resolve(t, x)
    \/ StopgapAllowed(t) \/ AllocateStopgap(t) \/ StopgapInserted(t) \/ Pinned(t)

\* Every step of the specification is one of these.
LEMMA NextIs ==
    ASSUME Shape, Next
    PROVE  \E t \in Loads : StepOf(t)
<1>1. PICK t \in Loads : Begin(t) \/ Step(t) \/ Crash(t) \/ BreakDeadlock(t)
  BY DEF Next
<1>2. CASE Crash(t) \/ BreakDeadlock(t)
  <2>1. Running(t) /\ End(t, "aborted") /\ UNCHANGED db
    BY <1>2 DEF Crash, BreakDeadlock, Fail
  <2>2. Ends(t)
    BY <2>1, EndMoves DEF Ends
  <2> QED BY <2>2 DEF StepOf
<1>3. CASE ApplyEvent(t)
  <2>1. Collision(t) \/ Applied(t)
    BY <1>3, ApplyMoves DEF Collision, Applied
  <2> QED BY <2>1 DEF StepOf
<1>4. CASE DeleteStopgaps(t)
  <2>1. Ends(t) \/ Deleted(t)
    BY <1>4, DeleteMoves DEF Ends, Deleted, Running, Failures
  <2> QED BY <2>1 DEF StepOf
<1>5. CASE LockStopgap(t)
  <2>1. Ends(t) \/ StopgapAllowed(t)
    BY <1>5, LockStopgapMoves DEF Ends, StopgapAllowed, Running, Failures
  <2> QED BY <2>1 DEF StepOf
<1>6. CASE InsertStopgap(t)
  <2>1. Unresolved(t) \/ StopgapInserted(t)
    BY <1>6, InsertStopgapMoves DEF Unresolved, StopgapInserted
  <2> QED BY <2>1 DEF StepOf
<1>7. CASE PinFact(t)
  <2>1. Ends(t) \/ Pinned(t)
    BY <1>7, PinMoves DEF Ends, Pinned, Running, Failures
  <2> QED BY <2>1 DEF StepOf
<1> QED BY <1>1, <1>2, <1>3, <1>4, <1>5, <1>6, <1>7 DEF Step, StepOf
----------------------------------------------------------------------------
(* Types.                                                                   *)

\* A step that sets one load's variables to typed values keeps the types.
LEMMA MovedType ==
    ASSUME TypeInv, NEW t \in Loads, NEW step \in Steps, NEW work \in Jobs,
           NEW writes \in Writes, NEW held, Moved(t, step, work, writes, held),
           db' \in Tables, InOrder(t, step, work, writes, held)
    PROVE  TypeInv'
<1>1. Shape
  BY DEF TypeInv
<1>2. at' \in [Loads -> Steps] /\ job' \in [Loads -> Jobs] /\ own' \in [Loads -> Writes]
  BY <1>1 DEF Shape, Moved
<1>3. Shape'
  BY <1>1, <1>2, MovedOnly DEF Shape
<1>4. ASSUME NEW u \in Loads PROVE InOrder(u, at'[u], job'[u], own'[u], locks'[u])
  <2>1. CASE u = t
    <3>1. at'[t] = step /\ job'[t] = work /\ own'[t] = writes /\ locks'[t] = held
      BY <1>1, MovedOnly
    <3> QED BY <2>1, <3>1
  <2>2. CASE u # t
    <3>1. InOrder(u, at[u], job[u], own[u], locks[u])
      BY DEF TypeInv
    <3>2. at'[u] = at[u] /\ job'[u] = job[u] /\ own'[u] = own[u] /\ locks'[u] = locks[u]
      BY <1>1, <2>2, MovedOnly
    <3> QED BY <3>1, <3>2
  <2> QED BY <2>1, <2>2
<1>5. \A u \in Loads : InOrder(u, at[u], job[u], own[u], locks[u])'
  BY <1>4 DEF InOrder
<1> QED BY <1>3, <1>5 DEF TypeInv

\* The variables of a load.
LEMMA LoadType ==
    ASSUME Shape, NEW t \in Loads
    PROVE  /\ at[t] \in Steps /\ job[t] \in Jobs /\ own[t] \in Writes
           /\ db \in Tables
BY DEF Shape

\* The constants of a reload, an apply and a fact.
LEMMA LogType ==
    /\ \A l \in Lsns : /\ l \in Nat /\ l > 0 /\ Wal[l].client \in Clients
                       /\ Wal[l].op \in {"insert", "update", "delete"}
                       /\ Wal[l].commit_ts \in Nat
    /\ \A c \in DOMAIN ReloadFrom : c \in Clients /\ ReloadFrom[c] \in Lsns
                                      /\ Wal[ReloadFrom[c]].client = c
    /\ \A x \in Facts : x \in Nat /\ FactRow[x].client \in Clients /\ FactRow[x].event_ts \in Nat
    /\ \A c \in Clients : c \in Nat
BY LogAssumption, LoadsAssumption

\* What a load reads is a history.
LEMMA HistoryType ==
    ASSUME Shape, NEW t \in Loads, NEW c \in Clients
    PROVE  /\ db.snap[c] \in Histories /\ own[t].rows[c] \in Edits
           /\ History(t, c) = Read(db.snap[c], own[t].rows[c])
           /\ IsHistory(History(t, c)) /\ History(t, c) \in Histories
           /\ DOMAIN History(t, c) = (DOMAIN db.snap[c] \ own[t].rows[c].gone)
                                         \cup DOMAIN own[t].rows[c].put
<1>1. db.snap[c] \in Histories /\ own[t].rows[c] \in Edits
  BY LoadType DEF Tables, Writes
<1> DEFINE base == db.snap[c]
           edit == own[t].rows[c]
<1>2. History(t, c) = Read(base, edit)
  BY HistoryReads
<1>3. base \in Histories /\ edit \in Edits
  BY <1>1
<1> HIDE DEF base, edit
<1>4. /\ IsHistory(Read(base, edit)) /\ Read(base, edit) \in Histories
      /\ DOMAIN Read(base, edit) = (DOMAIN base \ edit.gone) \cup DOMAIN edit.put
  BY <1>3, ReadType
<1> QED BY <1>1, <1>2, <1>4 DEF base, edit

\* A load that makes H of a client's history has written that, and nothing
\* else anew.
LEMMA WritingIs ==
    ASSUME Shape, NEW t \in Loads, NEW c \in Clients, NEW H, IsHistory(H)
    PROVE  /\ Writing(t, c, H) \in Writes
           /\ Writing(t, c, H).rows[c] = Edit(db.snap[c], H)
           /\ \A d \in Clients : d # c => Writing(t, c, H).rows[d] = own[t].rows[d]
           /\ Writing(t, c, H).marks = own[t].marks
           /\ Writing(t, c, H).pins = own[t].pins
           /\ Writing(t, c, H).rejected = own[t].rejected
<1> DEFINE E == Edit(db.snap[c], H)
           w == own[t]
<1>1. E \in Edits
  BY EditType, HistoryType
<1>2. w \in Writes
  BY LoadType
<1>3. Writing(t, c, H) = [w EXCEPT !.rows[c] = E]
  BY DEF Writing, Edit
<1> HIDE DEF E, w
<1>4. /\ [w EXCEPT !.rows[c] = E] \in Writes
      /\ [w EXCEPT !.rows[c] = E].rows[c] = E
      /\ \A d \in Clients \ {c} : [w EXCEPT !.rows[c] = E].rows[d] = w.rows[d]
      /\ [w EXCEPT !.rows[c] = E].marks = w.marks
      /\ [w EXCEPT !.rows[c] = E].pins = w.pins
      /\ [w EXCEPT !.rows[c] = E].rejected = w.rejected
  <2> DEFINE rows == [w.rows EXCEPT ![c] = E]
  <2>1. /\ w.rows \in [Clients -> Edits]
        /\ w = [rows |-> w.rows, marks |-> w.marks, pins |-> w.pins, rejected |-> w.rejected]
    BY <1>2 DEF Writes
  <2>2. rows \in [Clients -> Edits] /\ rows[c] = E /\ \A d \in Clients \ {c} : rows[d] = w.rows[d]
    BY <1>1, <2>1
  <2>3. [w EXCEPT !.rows[c] = E] =
            [rows |-> rows, marks |-> w.marks, pins |-> w.pins, rejected |-> w.rejected]
    BY <2>1
  <2> HIDE DEF rows
  <2> QED BY <1>2, <2>2, <2>3 DEF Writes
<1> QED BY <1>3, <1>4 DEF E, w

\* Likewise with its marks.
LEMMA MarkedIs ==
    ASSUME Shape, NEW t \in Loads, NEW c \in Clients, NEW H, IsHistory(H),
           NEW marks \in Partial(Clients, Marks \ {None})
    PROVE  /\ MarkedAs(t, c, H, marks) \in Writes
           /\ MarkedAs(t, c, H, marks).rows[c] = Edit(db.snap[c], H)
           /\ \A d \in Clients : d # c => MarkedAs(t, c, H, marks).rows[d] = own[t].rows[d]
           /\ MarkedAs(t, c, H, marks).marks = Overlay(own[t].marks, marks)
           /\ MarkedAs(t, c, H, marks).pins = own[t].pins
           /\ MarkedAs(t, c, H, marks).rejected = own[t].rejected
<1> DEFINE w == Writing(t, c, H)
           m == Overlay(w.marks, marks)
<1>1. w \in Writes /\ w.marks = own[t].marks
  BY WritingIs
<1>2. m \in Partial(Clients, Marks \ {None})
  <2>1. w.marks \in Partial(Clients, Marks \ {None})
    BY <1>1 DEF Writes
  <2> HIDE DEF w
  <2> QED BY <2>1, OverlayIs, OverlayPartial
<1>3. MarkedAs(t, c, H, marks) = [w EXCEPT !.marks = m]
  BY DEF MarkedAs
<1> HIDE DEF w, m
<1>4. /\ [w EXCEPT !.marks = m] \in Writes
      /\ [w EXCEPT !.marks = m].rows = w.rows
      /\ [w EXCEPT !.marks = m].marks = m
      /\ [w EXCEPT !.marks = m].pins = w.pins
      /\ [w EXCEPT !.marks = m].rejected = w.rejected
  BY <1>1, <1>2 DEF Writes
<1> QED BY <1>1, <1>3, <1>4, WritingIs DEF w, m

\* What it reads of marks and pins.
LEMMA MarkType ==
    ASSUME Shape, NEW t \in Loads
    PROVE  /\ \A c \in Clients : Mark(t, c) \in Marks
           /\ Pins(t) \in Pinnings
           /\ DOMAIN Pins(t) = DOMAIN db.fact \cup DOMAIN own[t].pins
           /\ \A x \in DOMAIN Pins(t) :
                  Pins(t)[x] = IF x \in DOMAIN own[t].pins THEN own[t].pins[x] ELSE db.fact[x]
<1> DEFINE pins == own[t].pins
           base == db.fact
           marks == own[t].marks
<1>1. /\ pins \in Pinnings /\ base \in Pinnings /\ marks \in Partial(Clients, Marks \ {None})
      /\ db.wm \in [Clients -> Marks]
  BY LoadType DEF Writes, Tables
<1> HIDE DEF pins, base, marks
<1>2. \A c \in DOMAIN marks : marks[c] \in Marks
  BY <1>1, PartialIs
<1>3. \A c \in Clients : Mark(t, c) \in Marks
  BY <1>1, <1>2 DEF Mark, marks
<1>4. /\ Overlay(base, pins) \in Pinnings
      /\ DOMAIN Overlay(base, pins) = DOMAIN base \cup DOMAIN pins
      /\ \A x \in DOMAIN base \cup DOMAIN pins :
                  Overlay(base, pins)[x] = IF x \in DOMAIN pins THEN pins[x] ELSE base[x]
  <2>1. pins \in Partial(Facts, Int) /\ base \in Partial(Facts, Int)
    BY <1>1 DEF Pinnings
  <2>2. /\ Overlay(base, pins) \in Partial(Facts, Int)
        /\ DOMAIN Overlay(base, pins) = DOMAIN base \cup DOMAIN pins
        /\ \A x \in DOMAIN base \cup DOMAIN pins :
                  Overlay(base, pins)[x] = IF x \in DOMAIN pins THEN pins[x] ELSE base[x]
    BY <2>1, OverlayIs, OverlayPartial
  <2> QED BY <2>2 DEF Pinnings
<1>5. Pins(t) = Overlay(base, pins)
  BY DEF Pins, base, pins
<1> QED BY <1>3, <1>4, <1>5 DEF base, pins

\* Quarantining writes nothing else.
LEMMA QuarantiningIs ==
    ASSUME Shape, NEW t \in Loads, NEW why \in Reasons, NEW l \in Lsns
    PROVE  LET writes == Quarantining(t, <<why, l>>) IN
           /\ writes \in Writes
           /\ writes.rows = own[t].rows /\ writes.marks = own[t].marks /\ writes.pins = own[t].pins
           /\ writes.rejected = own[t].rejected \cup {<<why, l>>}
<1> DEFINE w == own[t]
           q == <<why, l>>
<1>1. w \in Writes /\ q \in Reasons \X Lsns
  BY LoadType
<1>2. Quarantining(t, q) = [w EXCEPT !.rejected = w.rejected \cup {q}]
  BY DEF Quarantining
<1> HIDE DEF w, q
<1>3. /\ [w EXCEPT !.rejected = w.rejected \cup {q}] \in Writes
      /\ [w EXCEPT !.rejected = w.rejected \cup {q}].rows = w.rows
      /\ [w EXCEPT !.rejected = w.rejected \cup {q}].marks = w.marks
      /\ [w EXCEPT !.rejected = w.rejected \cup {q}].pins = w.pins
      /\ [w EXCEPT !.rejected = w.rejected \cup {q}].rejected = w.rejected \cup {q}
  BY <1>1 DEF Writes
<1> QED BY <1>2, <1>3 DEF w, q

\* What a load starts with.
LEMMA NothingType ==
    /\ NoWork \in Jobs /\ NoWrites \in Writes
    /\ NoWork.events = {} /\ NoWork.pending = {} /\ NoWork.left = {} /\ NoWork.keys = {}
    /\ DOMAIN NoWrites.marks = {} /\ DOMAIN NoWrites.pins = {} /\ NoWrites.rejected = {}
    /\ \A c \in Clients : DOMAIN NoWrites.rows[c].put = {} /\ NoWrites.rows[c].gone = {}
<1> HIDE DEF Empty
<1>1. DOMAIN Empty = {} /\ Empty = [x \in DOMAIN Empty |-> Empty[x]]
  BY DEF Empty
<1>2. \A D, R : Empty \in Partial(D, R)
  BY <1>1, PartialIs
<1>3. /\ Empty \in Histories /\ Empty \in Pinnings
      /\ Empty \in Partial(Clients, Marks \ {None})
  BY <1>2 DEF Histories, Pinnings
<1>4. [put |-> Empty, gone |-> {}] \in Edits
  BY <1>3 DEF Edits
<1>5. NoWrites \in Writes
  BY <1>3, <1>4 DEF NoWrites, Writes
<1> QED BY <1>1, <1>5 DEF NoWork, NoWrites, Jobs, Items, None

\* Work that differs in the keys at most.
SameWork(one, other) ==
    /\ other.events = one.events /\ other.pending = one.pending /\ other.left = one.left
    /\ other.orphans = one.orphans /\ other.item = one.item /\ other.seen = one.seen

\* Load t ends, and the others lose the keys of what it has deleted.
MovedAside(t) ==
    /\ at'[t] = "committed" /\ job'[t] = NoWork /\ own'[t] = NoWrites /\ locks'[t] = {}
    /\ \A u \in Loads \ {t} :
          /\ at'[u] = at[u] /\ own'[u] = own[u] /\ locks'[u] = locks[u]
          /\ job'[u] \in Jobs /\ SameWork(job[u], job'[u])
          /\ job'[u].keys = KeysLeft(u, t) /\ job'[u].keys \subseteq job[u].keys
    /\ at' \in [Loads -> Steps] /\ own' \in [Loads -> Writes]
    /\ job' = [u \in Loads |-> job'[u]] /\ locks' = [u \in Loads |-> locks'[u]]

\* What a commit does.
LEMMA CommitMoves ==
    ASSUME Shape, NEW t \in Loads, Commit(t)
    PROVE  /\ at[t] = "next" /\ job[t].events = {} /\ job[t].pending = {} /\ job[t].left = {}
           /\ db' \in Tables
           /\ db'.snap = [c \in Clients |-> History(t, c)]
           /\ db'.wm = [c \in Clients |-> Mark(t, c)]
           /\ db'.fact = Pins(t)
           /\ db'.rejected = db.rejected \cup own[t].rejected
           /\ MovedAside(t)
<1>1. MovedAside(t)
  <2>1. ASSUME NEW u \in Loads, u # t
        PROVE  /\ job'[u] = [job[u] EXCEPT !.keys = KeysLeft(u, t)]
               /\ KeysLeft(u, t) \subseteq job[u].keys
    BY <2>1 DEF Commit, KeysLeft
  <2>2. /\ at' = [at EXCEPT ![t] = "committed"] /\ own' = [own EXCEPT ![t] = NoWrites]
        /\ locks' = [locks EXCEPT ![t] = {}] /\ job'[t] = NoWork
        /\ job' = [u \in Loads |-> job'[u]]
    BY DEF Commit, ReleaseLocks
  <2>3. ASSUME NEW u \in Loads, u # t
        PROVE  /\ job'[u] \in Jobs
               /\ job'[u].keys = KeysLeft(u, t) /\ job'[u].keys \subseteq job[u].keys
               /\ SameWork(job[u], job'[u])
    <3> DEFINE left == KeysLeft(u, t)
    <3>1. job[u] \in Jobs /\ left \subseteq job[u].keys /\ job'[u] = [job[u] EXCEPT !.keys = left]
      BY <2>1, <2>3, LoadType
    <3> HIDE DEF left
    <3>2. job'[u] \in Jobs /\ job'[u].keys = left /\ SameWork(job[u], job'[u])
      BY <3>1 DEF Jobs, SameWork
    <3> QED BY <3>1, <3>2 DEF left
  <2>4. at' \in [Loads -> Steps] /\ own' \in [Loads -> Writes]
    BY <2>2, NothingType DEF Shape, Steps
  <2> QED BY <2>2, <2>3, <2>4 DEF Shape, MovedAside
<1> DEFINE snap == [c \in Clients |-> History(t, c)]
           wm == [c \in Clients |-> Mark(t, c)]
           fact == Pins(t)
           rejected == db.rejected \cup own[t].rejected
<1>2. /\ snap \in [Clients -> Histories] /\ wm \in [Clients -> Marks]
      /\ fact \in Pinnings /\ rejected \in SUBSET (Reasons \X Lsns)
  <2>1. db.rejected \in SUBSET (Reasons \X Lsns) /\ own[t].rejected \in SUBSET (Reasons \X Lsns)
    BY LoadType DEF Tables, Writes
  <2> QED BY <2>1, HistoryType, MarkType
<1>3. db' = [snap |-> snap, wm |-> wm, fact |-> fact, rejected |-> rejected]
  BY DEF Commit
<1> HIDE DEF snap, wm, fact, rejected
<1>4. db' \in Tables /\ db'.snap = snap /\ db'.wm = wm /\ db'.fact = fact /\ db'.rejected = rejected
  BY <1>2, <1>3 DEF Tables
<1> QED BY <1>1, <1>4 DEF Commit, Done, snap, wm, fact, rejected

\* The histories that the steps write.
LEMMA AppendedType ==
    ASSUME Shape, NEW t \in Loads, job[t].item \in Lsns
    PROVE  IsHistory(Appended(t))
<1> DEFINE l == job[t].item
           H == History(t, Wal[l].client)
           ts == Wal[l].commit_ts
           attrs == <<l, 1>>
<1>1. IsHistory(H) /\ l \in Int /\ ts \in Int /\ attrs \in Attrs
  <2>1. Wal[l].client \in Clients /\ l \in Int /\ ts \in Int
    BY LogType
  <2>2. IsHistory(H)
    BY <2>1, HistoryType
  <2>3. attrs \in Attrs
    BY <2>1 DEF Attrs
  <2> QED BY <2>1, <2>2, <2>3
<1>2. Appended(t) = IF Wal[l].op = "delete" THEN ApplyDelete(H, l, ts)
                    ELSE ApplyUpsert(H, l, ts, attrs)
  BY DEF Appended
<1> HIDE DEF H, l, ts, attrs
<1>3. IsHistory(ApplyDelete(H, l, ts)) /\ IsHistory(ApplyUpsert(H, l, ts, attrs))
  BY <1>1, ApplyDeleteType, ApplyUpsertType
<1> QED BY <1>2, <1>3

\* What a reset leaves of a history, and the mark it sets back.
LEMMA RemainingType ==
    ASSUME Shape, NEW t \in Loads, job[t].item \in DOMAIN ReloadFrom
    PROVE  /\ IsHistory(Remaining(t))
           /\ DOMAIN Remaining(t) = DOMAIN History(t, job[t].item) \ {l \in job[t].keys : l >= ReloadFrom[job[t].item]}
           /\ RolledBack(t) \in Partial(Clients, Marks \ {None})
           /\ DOMAIN RolledBack(t) = IF Mark(t, job[t].item) = None THEN {} ELSE {job[t].item}
           /\ \A d \in DOMAIN RolledBack(t) : RolledBack(t)[d] = ReloadFrom[job[t].item] - 1
<1> DEFINE c == job[t].item
           from == ReloadFrom[c]
           H == History(t, c)
           missed == {l \in DOMAIN H : l >= from} \ job[t].keys
           kept == [l \in missed |-> H[l]]
           below == ResetFrom(H, from)
<1>1. IsHistory(H) /\ from \in Int /\ from \in Lsns /\ c \in Clients /\ from > 0
  <2>1. from \in Int /\ from \in Lsns /\ c \in Clients /\ from > 0
    BY LogType
  <2> HIDE DEF from, c
  <2> QED BY <2>1, HistoryType
<1>2. Remaining(t) = Overlay(below, kept)
  BY DEF Remaining
<1>3. IsHistory(below)
  <2> HIDE DEF H, from
  <2> QED BY <1>1, ResetFromType
<1>4. IsHistory(kept) /\ DOMAIN kept = missed
  BY <1>1 DEF IsHistory
<1>5. DOMAIN below = {l \in DOMAIN H : l < from}
  BY DEF ResetFrom, Below
<1>6. /\ Overlay(below, kept) \in Partial(Int, Version)
      /\ DOMAIN Overlay(below, kept) = DOMAIN below \cup DOMAIN kept
  <2>1. below \in Partial(Int, Version) /\ kept \in Partial(Int, Version)
    BY <1>3, <1>4, HistoryIs DEF Histories
  <2> HIDE DEF below, kept
  <2> QED BY <2>1, OverlayIs, OverlayPartial
<1>7. IsHistory(Remaining(t))
  BY <1>2, <1>6, HistoryIs DEF Histories
<1>8. DOMAIN Remaining(t) = DOMAIN H \ {l \in job[t].keys : l >= from}
  <2>1. DOMAIN H \subseteq Int
    BY <1>1 DEF IsHistory
  <2>2. DOMAIN Remaining(t) = {l \in DOMAIN H : l < from} \cup missed
    BY <1>2, <1>4, <1>5, <1>6
  <2>3. missed = {l \in DOMAIN H : l >= from /\ l \notin job[t].keys}
    OBVIOUS
  <2> HIDE DEF H, from, missed
  <2> QED BY <1>1, <2>1, <2>2, <2>3
<1>9. /\ DOMAIN RolledBack(t) = IF Mark(t, c) = None THEN {} ELSE {c}
      /\ \A d \in DOMAIN RolledBack(t) : RolledBack(t)[d] = from - 1
      /\ RolledBack(t) = [d \in DOMAIN RolledBack(t) |-> RolledBack(t)[d]]
  BY DEF RolledBack
<1>10. from - 1 \in Marks \ {None}
  BY <1>1 DEF Marks, None
<1>11. RolledBack(t) \in Partial(Clients, Marks \ {None})
  BY <1>1, <1>9, <1>10, PartialIs
<1> QED BY <1>7, <1>8, <1>9, <1>11

\* What a load works on is of the step's kind.
LEMMA ItemType ==
    ASSUME TypeInv, NEW t \in Loads
    PROVE  /\ InOrder(t, at[t], job[t], own[t], locks[t])
           /\ at[t] = "apply" => job[t].item \in Lsns
           /\ at[t] = "reset" => job[t].item \in DOMAIN ReloadFrom
           /\ at[t] \in {"baseline", "repoint", "delete"} => job[t].item \in Clients
           /\ at[t] \in {"stopgap", "allocate", "insert", "pin"} => job[t].item \in Facts
           /\ job[t] = [events |-> job[t].events, pending |-> job[t].pending,
                        left |-> job[t].left, orphans |-> job[t].orphans,
                        item |-> job[t].item, seen |-> job[t].seen, keys |-> job[t].keys]
           /\ job[t].events \subseteq Lsns /\ job[t].pending \subseteq Clients
           /\ job[t].left \subseteq Facts /\ job[t].orphans \in BOOLEAN
           /\ job[t].item \in Items /\ job[t].seen \in Int /\ job[t].keys \subseteq Int
<1>1. InOrder(t, at[t], job[t], own[t], locks[t]) /\ job[t] \in Jobs
  BY LoadType DEF TypeInv
<1>2. /\ job[t].events \subseteq Lsns /\ job[t].pending \subseteq Clients
      /\ job[t].left \subseteq Facts /\ job[t].orphans \in BOOLEAN
      /\ job[t].item \in Items /\ job[t].seen \in Int /\ job[t].keys \subseteq Int
      /\ job[t] = [events |-> job[t].events, pending |-> job[t].pending,
                        left |-> job[t].left, orphans |-> job[t].orphans,
                        item |-> job[t].item, seen |-> job[t].seen, keys |-> job[t].keys]
  BY <1>1 DEF Jobs, Items
<1> QED BY <1>1, <1>2 DEF InOrder

\* Beginning a load keeps the types.
LEMMA BeginType ==
    ASSUME TypeInv, NEW t \in Loads, Begin(t)
    PROVE  TypeInv'
<1>1. Shape
  BY DEF TypeInv
<1>2. SUFFICES ASSUME NEW kind, NEW work \in Jobs, Start(t, kind, work),
                      work.events # {} => kind = "apply",
                      work.pending # {} => kind \in {"seed", "reload"},
                      work.left # {} => kind = "facts",
                      kind = "reload" => work.pending \subseteq DOMAIN ReloadFrom
               PROVE  TypeInv'
  <2>1. \A S \in SUBSET Lsns : /\ [NoWork EXCEPT !.events = S] \in Jobs
                               /\ [NoWork EXCEPT !.events = S].events = S
                               /\ [NoWork EXCEPT !.events = S].pending = {}
                               /\ [NoWork EXCEPT !.events = S].left = {}
    BY NothingType DEF Jobs
  <2>2. \A S \in SUBSET Clients : /\ [NoWork EXCEPT !.pending = S] \in Jobs
                                  /\ [NoWork EXCEPT !.pending = S].pending = S
                                  /\ [NoWork EXCEPT !.pending = S].events = {}
                                  /\ [NoWork EXCEPT !.pending = S].left = {}
    BY NothingType DEF Jobs
  <2>3. \A S \in SUBSET Facts : /\ [NoWork EXCEPT !.left = S] \in Jobs
                                /\ [NoWork EXCEPT !.left = S].left = S
                                /\ [NoWork EXCEPT !.left = S].pending = {}
                                /\ [NoWork EXCEPT !.left = S].events = {}
    BY NothingType DEF Jobs
  <2>4. CASE BeginApply(t)
    <3> DEFINE S == {l \in Lsns : ~ (l <= db.wm[Wal[l].client])}
    <3>1. S \in SUBSET Lsns /\ Start(t, "apply", [NoWork EXCEPT !.events = S])
      BY <2>4 DEF BeginApply
    <3> HIDE DEF S
    <3> QED BY <1>2, <2>1, <3>1
  <2>5. CASE BeginReload(t)
    <3>1. DOMAIN ReloadFrom \in SUBSET Clients
      BY LoadsAssumption
    <3> QED BY <1>2, <2>2, <2>5, <3>1 DEF BeginReload
  <2>6. CASE BeginSeed(t)
    <3> DEFINE S == ProfileClients \ Excluded
    <3>1. S \in SUBSET Clients /\ Start(t, "seed", [NoWork EXCEPT !.pending = S])
      BY <2>6, LoadsAssumption DEF BeginSeed
    <3> HIDE DEF S
    <3> QED BY <1>2, <2>2, <3>1
  <2>7. CASE BeginFacts(t)
    <3>1. Source[t] \in SUBSET Facts
      BY LoadsAssumption
    <3> QED BY <1>2, <2>3, <2>7, <3>1 DEF BeginFacts
  <2> QED BY <2>4, <2>5, <2>6, <2>7 DEF Begin
<1>3. /\ at[t] = "ready" /\ Kind[t] = kind /\ UNCHANGED db
      /\ Moved(t, "next", work, own[t], locks[t])
  BY <1>1, <1>2, StartMoves
<1>4. InOrder(t, "next", work, own[t], locks[t])
  BY <1>2, <1>3 DEF InOrder, Failures
<1> QED BY <1>1, <1>2, <1>3, <1>4, MovedType, LoadType DEF Steps

\* So does ending one.
LEMMA EndType ==
    ASSUME TypeInv, NEW t \in Loads, NEW outcome \in {"committed"} \cup Failures,
           Moved(t, outcome, NoWork, NoWrites, {}), db' \in Tables
    PROVE  TypeInv'
<1>1. outcome \in Steps
  BY DEF Steps
<1>2. InOrder(t, outcome, NoWork, NoWrites, {})
  BY NothingType DEF InOrder, Failures
<1> QED BY <1>1, <1>2, NothingType, MovedType

\* So does a step that writes nothing.
LEMMA QuietType ==
    ASSUME TypeInv, NEW t \in Loads,
           \/ \E l \in Lsns : LockEvent(t, l)
           \/ \E c \in Clients : LockForReset(t, c) \/ CheckHistory(t, c)
           \/ BeginOrphans(t)
           \/ \E x \in Facts : Resolve(t, x)
           \/ StopgapAllowed(t) \/ AllocateStopgap(t)
    PROVE  TypeInv'
<1> DEFINE j == job[t]
           w == own[t]
<1>1. /\ Shape /\ db \in Tables /\ j \in Jobs /\ w \in Writes
      /\ InOrder(t, at[t], j, w, locks[t])
  BY LoadType DEF TypeInv
<1>2. SUFFICES ASSUME NEW step \in Steps \ ({"ready", "committed"} \cup Failures),
                      NEW work \in Jobs, NEW held, UNCHANGED db,
                      Moved(t, step, work, w, held), InOrder(t, step, work, w, held)
               PROVE  TypeInv'
  <2>1. ASSUME NEW l \in Lsns, LockEvent(t, l) PROVE TypeInv'
    <3>1. at[t] = "next" /\ l \in j.events /\ UNCHANGED db
      BY <1>1, <2>1, LockEventMoves DEF FirstEvent
    <3>2. CASE \E held : Moved(t, "next", [j EXCEPT !.events = @ \ {l}],
                               Quarantining(t, <<"delete_with_no_baseline", l>>), held)
      <4> DEFINE writes == Quarantining(t, <<"delete_with_no_baseline", l>>)
                 work == [j EXCEPT !.events = @ \ {l}]
      <4>1. j.events \ {l} \in SUBSET Lsns
        BY <1>1 DEF Jobs, Items
      <4>2. work \in Jobs
        BY <1>1, <4>1 DEF Jobs, Items
      <4>3. \A held : InOrder(t, "next", work, writes, held)
        BY <1>1, <3>1 DEF InOrder, Failures, Jobs, Items
      <4>4. writes \in Writes
        BY <1>1, QuarantiningIs DEF Reasons
      <4>5. "next" \in Steps
        BY DEF Steps
      <4>6. PICK held : Moved(t, "next", work, writes, held)
        BY <3>2
      <4> HIDE DEF writes, work
      <4> QED BY <1>1, <3>1, <4>2, <4>3, <4>4, <4>5, <4>6, MovedType
    <3>3. CASE \E held : Moved(t, "apply",
                          [j EXCEPT !.item = l, !.seen = Mark(t, Wal[l].client)], w, held)
      <4> DEFINE m == Mark(t, Wal[l].client)
      <4>1. l \in Int /\ m \in Int
        <5>1. Wal[l].client \in Clients /\ l \in Int
          BY LogType
        <5>2. Marks \subseteq Int
          BY LogType DEF Marks, None
        <5> QED BY <1>1, <5>1, <5>2, MarkType
      <4> HIDE DEF m
      <4>2. [j EXCEPT !.item = l, !.seen = m] \in Jobs
        BY <1>1, <4>1 DEF Jobs, Items
      <4>3. \A held : InOrder(t, "apply", [j EXCEPT !.item = l, !.seen = m], w, held)
        BY <1>1, <3>1 DEF InOrder, Failures, Jobs, Items
      <4> QED BY <1>2, <3>1, <3>3, <4>2, <4>3 DEF Steps, Failures, m
    <3>4. \/ \E held : Moved(t, "next", [j EXCEPT !.events = @ \ {l}],
                             Quarantining(t, <<"delete_with_no_baseline", l>>), held)
          \/ \E held : Moved(t, "apply",
                             [j EXCEPT !.item = l, !.seen = Mark(t, Wal[l].client)], w, held)
      BY <1>1, <2>1, LockEventMoves, Zenon
    <3> QED BY <3>2, <3>3, <3>4
  <2>2. ASSUME NEW c \in Clients, LockForReset(t, c) PROVE TypeInv'
    <3> DEFINE keys == {l \in DOMAIN History(t, c) : l >= ReloadFrom[c]}
               work == [j EXCEPT !.item = c, !.keys = keys]
               held == locks[t] \cup ReloadLock(c)
    <3>1. /\ at[t] = "next" /\ Kind[t] = "reload" /\ j.events = {} /\ c \in j.pending
          /\ UNCHANGED db /\ Moved(t, "reset", work, w, held)
      BY <1>1, <2>2, LockForResetMoves DEF FirstClient
    <3>2. keys \in SUBSET Int /\ c \in Int
      <4>1. DOMAIN History(t, c) \subseteq Int
        BY <1>1, HistoryType DEF IsHistory
      <4> QED BY <4>1, LogType
    <3> HIDE DEF keys, held
    <3>3. work \in Jobs
      BY <1>1, <3>2 DEF Jobs, Items
    <3>4. InOrder(t, "reset", work, w, held)
      BY <1>1, <3>1 DEF InOrder, Failures, Jobs, Items
    <3> QED BY <1>2, <3>1, <3>3, <3>4 DEF Steps, Failures
  <2>3. ASSUME NEW c \in Clients, CheckHistory(t, c) PROVE TypeInv'
    <3>1. /\ at[t] = "next" /\ Kind[t] = "seed" /\ c \in j.pending /\ UNCHANGED db
          /\ \/ Moved(t, "next", Passed(t, c), w, locks[t])
             \/ Moved(t, "baseline", [j EXCEPT !.item = c], w, locks[t])
      BY <1>1, <2>3, CheckHistoryMoves
    <3>2. c \in Int /\ None \in Int
      BY LogType DEF None
    <3>3. Passed(t, c) \in Jobs /\ [j EXCEPT !.item = c] \in Jobs
      BY <1>1, <3>2 DEF Jobs, Items, Passed
    <3>4. /\ InOrder(t, "next", Passed(t, c), w, locks[t])
          /\ InOrder(t, "baseline", [j EXCEPT !.item = c], w, locks[t])
      BY <1>1, <3>1 DEF InOrder, Failures, Jobs, Items, Passed
    <3> QED BY <1>2, <3>1, <3>3, <3>4 DEF Steps, Failures
  <2>4. ASSUME BeginOrphans(t) PROVE TypeInv'
    <3> DEFINE S == {c \in Clients : \E l \in DOMAIN History(t, c) : l < 0}
                                         \ (ProfileClients \cup Excluded)
               work == [j EXCEPT !.orphans = TRUE, !.pending = S]
    <3>1. /\ at[t] = "next" /\ Kind[t] = "seed" /\ UNCHANGED db
          /\ Moved(t, "next", work, w, locks[t])
      BY <1>1, <2>4, OrphansMoves
    <3>2. S \in SUBSET Clients
      OBVIOUS
    <3> HIDE DEF S
    <3>3. work \in Jobs
      BY <1>1, <3>2 DEF Jobs, Items
    <3>4. InOrder(t, "next", work, w, locks[t])
      BY <1>1, <3>1 DEF InOrder, Failures, Jobs, Items
    <3> QED BY <1>2, <3>1, <3>3, <3>4 DEF Steps, Failures
  <2>5. ASSUME NEW x \in Facts, Resolve(t, x) PROVE TypeInv'
    <3>1. /\ at[t] = "next" /\ x \in j.left /\ UNCHANGED db
          /\ \/ \E l \in FoundFor(t, x) :
                   Moved(t, "pin", [j EXCEPT !.item = x, !.keys = {l}], w, locks[t])
             \/ Moved(t, "stopgap", [j EXCEPT !.item = x], w, locks[t])
      BY <1>1, <2>5, ResolveMoves
    <3>2. x \in Int /\ FoundFor(t, x) \subseteq Int
      <4>1. x \in Int /\ FactRow[x].client \in Clients
        BY LogType
      <4>2. DOMAIN History(t, FactRow[x].client) \subseteq Int
        BY <1>1, <4>1, HistoryType DEF IsHistory
      <4> QED BY <4>1, <4>2 DEF FoundFor, Covering
    <3>3. /\ [j EXCEPT !.item = x] \in Jobs
          /\ \A l \in Int : [j EXCEPT !.item = x, !.keys = {l}] \in Jobs
      BY <1>1, <3>2 DEF Jobs, Items
    <3>4. /\ InOrder(t, "stopgap", [j EXCEPT !.item = x], w, locks[t])
          /\ \A l \in Int : InOrder(t, "pin", [j EXCEPT !.item = x, !.keys = {l}], w, locks[t])
      BY <1>1, <3>1 DEF InOrder, Failures, Jobs, Items
    <3> QED BY <1>2, <3>1, <3>2, <3>3, <3>4 DEF Steps, Failures
  <2>6. ASSUME StopgapAllowed(t) PROVE TypeInv'
    <3> DEFINE held == locks[t] \cup StopgapLock(FactRow[j.item].client)
    <3>1. at[t] = "stopgap" /\ UNCHANGED db /\ Moved(t, "allocate", j, w, held)
      BY <2>6 DEF StopgapAllowed
    <3> HIDE DEF held
    <3>2. InOrder(t, "allocate", j, w, held)
      BY <1>1, <3>1 DEF InOrder, Failures, Jobs, Items
    <3> QED BY <1>1, <1>2, <3>1, <3>2 DEF Steps, Failures
  <2>7. ASSUME AllocateStopgap(t) PROVE TypeInv'
    <3> DEFINE keys == StopgapLsns(HistoryOfItem(t))
               work == [j EXCEPT !.keys = keys]
               held == locks[t]
    <3>1. at[t] = "allocate" /\ UNCHANGED db /\ Moved(t, "insert", work, w, held)
      BY <1>1, <2>7, AllocateMoves
    <3>2. keys \in SUBSET Int
      <4>1. FactRow[j.item].client \in Clients
        BY <3>1, ItemType, LogType
      <4>2. DOMAIN HistoryOfItem(t) \subseteq Int
        BY <1>1, <4>1, HistoryType DEF IsHistory, HistoryOfItem
      <4> QED BY <4>2 DEF StopgapLsns
    <3> HIDE DEF keys, held
    <3>3. work \in Jobs
      BY <1>1, <3>2 DEF Jobs, Items
    <3>4. InOrder(t, "insert", work, w, held)
      BY <1>1, <3>1 DEF InOrder, Failures, Jobs, Items
    <3> QED BY <1>2, <3>1, <3>3, <3>4 DEF Steps, Failures
  <2> QED BY <2>1, <2>2, <2>3, <2>4, <2>5, <2>6, <2>7, SMTT(40)
<1> QED BY <1>1, <1>2, MovedType

\* A baseline is added to what is there,
LEMMA WithBaselineType ==
    ASSUME Shape, NEW t \in Loads, job[t].item \in Clients
    PROVE  /\ IsHistory(WithBaseline(t))
           /\ DOMAIN WithBaseline(t) = DOMAIN History(t, job[t].item) \cup {0}
           /\ \A l \in DOMAIN History(t, job[t].item) :
                  WithBaseline(t)[l] = History(t, job[t].item)[l]
<1> DEFINE H == History(t, job[t].item)
           row == BaselineRow(IF job[t].orphans THEN UnknownAttrs ELSE ProfileAttrs)
<1>1. IsHistory(H)
  BY HistoryType
<1>2. row \in Version
  BY ConstantRowsType
<1>3. WithBaseline(t) = Insert(H, 0, row)
  BY DEF WithBaseline
<1> HIDE DEF H, row
<1>4. /\ DOMAIN Insert(H, 0, row) = DOMAIN H \cup {0}
      /\ \A l \in DOMAIN H : Insert(H, 0, row)[l] = H[l]
  BY DEF Insert
<1> QED BY <1>1, <1>2, <1>3, <1>4, InsertType DEF H

\* and so is a stopgap;
LEMMA WithStopgapType ==
    ASSUME Shape, NEW t \in Loads, job[t].item \in Facts, NEW lsn \in Int
    PROVE  /\ IsHistory(WithStopgap(t, lsn)) /\ IsHistory(HistoryOfItem(t))
           /\ DOMAIN WithStopgap(t, lsn) = DOMAIN HistoryOfItem(t) \cup {lsn}
           /\ \A l \in DOMAIN HistoryOfItem(t) : WithStopgap(t, lsn)[l] = HistoryOfItem(t)[l]
           /\ lsn \notin DOMAIN HistoryOfItem(t) =>
                  WithStopgap(t, lsn)[lsn] = StopgapRow(FactRow[job[t].item].event_ts)
<1> DEFINE H == HistoryOfItem(t)
           row == StopgapRow(FactRow[job[t].item].event_ts)
<1>1. FactRow[job[t].item].client \in Clients /\ FactRow[job[t].item].event_ts \in Int
  BY LogType
<1>2. IsHistory(H)
  BY <1>1, HistoryType DEF HistoryOfItem
<1>3. row \in Version
  BY <1>1, ConstantRowsType
<1>4. WithStopgap(t, lsn) = Insert(H, lsn, row)
  BY DEF WithStopgap
<1> HIDE DEF H, row
<1>5. /\ DOMAIN Insert(H, lsn, row) = DOMAIN H \cup {lsn}
      /\ \A l \in DOMAIN H : Insert(H, lsn, row)[l] = H[l]
      /\ lsn \notin DOMAIN H => Insert(H, lsn, row)[lsn] = row
  BY DEF Insert
<1> QED BY <1>2, <1>3, <1>4, <1>5, InsertType DEF H, row

\* what is deleted is taken away.
LEMMA DeletedType ==
    ASSUME Shape, NEW t \in Loads, NEW c \in Clients, NEW keys
    PROVE  /\ IsHistory(Delete(History(t, c), keys))
           /\ DOMAIN Delete(History(t, c), keys) = DOMAIN History(t, c) \ keys
           /\ \A l \in DOMAIN History(t, c) \ keys :
                  Delete(History(t, c), keys)[l] = History(t, c)[l]
<1> DEFINE H == History(t, c)
<1>1. IsHistory(H)
  BY HistoryType
<1> HIDE DEF H
<1>2. /\ DOMAIN Delete(H, keys) = DOMAIN H \ keys
      /\ \A l \in DOMAIN H \ keys : Delete(H, keys)[l] = H[l]
  BY DEF Delete
<1> QED BY <1>1, <1>2, DeleteType DEF H

\* Pinning facts to a row.
LEMMA PinningType ==
    ASSUME Shape, NEW t \in Loads, NEW X \in SUBSET Facts, NEW l \in Int
    PROVE  /\ PinnedAs(t, X, l) \in Writes
           /\ PinnedAs(t, X, l).rows = own[t].rows /\ PinnedAs(t, X, l).marks = own[t].marks
           /\ PinnedAs(t, X, l).rejected = own[t].rejected
           /\ DOMAIN PinnedAs(t, X, l).pins = DOMAIN own[t].pins \cup X
           /\ \A x \in DOMAIN own[t].pins \cup X :
                  PinnedAs(t, X, l).pins[x] = IF x \in X THEN l ELSE own[t].pins[x]
<1> DEFINE old == own[t].pins
           new == [x \in X |-> l]
           pins == Overlay(old, new)
           w == own[t]
<1>1. w \in Writes /\ old \in Pinnings
  BY LoadType DEF Writes
<1>2. DOMAIN new = X /\ (\A x \in X : new[x] = l) /\ new \in Partial(Facts, Int)
  BY DEF Partial
<1> HIDE DEF old, new
<1>3. /\ pins \in Pinnings /\ DOMAIN pins = DOMAIN old \cup X
      /\ \A x \in DOMAIN old \cup X : pins[x] = IF x \in X THEN l ELSE old[x]
  <2>1. pins \in Pinnings
    <3>1. old \in Partial(Facts, Int) /\ new \in Partial(Facts, Int)
      BY <1>1, <1>2 DEF Pinnings
    <3>2. Overlay(old, new) \in Partial(Facts, Int)
      BY <3>1, OverlayPartial
    <3> QED BY <3>2 DEF Pinnings
  <2>2. /\ DOMAIN Overlay(old, new) = DOMAIN old \cup DOMAIN new
        /\ \A x \in DOMAIN old \cup DOMAIN new :
               Overlay(old, new)[x] = IF x \in DOMAIN new THEN new[x] ELSE old[x]
    BY OverlayIs
  <2> QED BY <1>2, <2>1, <2>2
<1> HIDE DEF pins, w
<1>4. /\ [w EXCEPT !.pins = pins] \in Writes
      /\ [w EXCEPT !.pins = pins].rows = w.rows /\ [w EXCEPT !.pins = pins].marks = w.marks
      /\ [w EXCEPT !.pins = pins].rejected = w.rejected /\ [w EXCEPT !.pins = pins].pins = pins
  BY <1>1, <1>3 DEF Writes
<1>5. PinnedAs(t, X, l) = [w EXCEPT !.pins = pins]
  BY DEF PinnedAs, w, pins, old, new
<1> QED BY <1>3, <1>4, <1>5 DEF w, old

\* The facts a seed repoints.
LEMMA PinnedToType ==
    ASSUME Shape, NEW t \in Loads, NEW c, NEW keys
    PROVE  PinnedTo(t, c, keys) \in SUBSET Facts
<1>1. DOMAIN Pins(t) \subseteq Facts
  BY MarkType, PartialIs DEF Pinnings
<1> QED BY <1>1 DEF PinnedTo

\* Steps that write keep the types.
LEMMA WriteType ==
    ASSUME TypeInv, NEW t \in Loads,
           \/ RejectStale(t) \/ Applied(t) \/ Reset(t) \/ InsertBaseline(t)
           \/ Repoint(t) \/ Deleted(t) \/ StopgapInserted(t) \/ Pinned(t)
    PROVE  TypeInv'
<1> DEFINE j == job[t]
           w == own[t]
           held == locks[t]
<1>1. /\ Shape /\ db \in Tables /\ j \in Jobs /\ w \in Writes
      /\ InOrder(t, at[t], j, w, held) /\ None \in Int
  BY LoadType DEF TypeInv, None
<1>2. SUFFICES ASSUME NEW step \in Steps \ ({"ready", "committed"} \cup Failures),
                      NEW work \in Jobs, NEW writes \in Writes, UNCHANGED db,
                      Moved(t, step, work, writes, held), InOrder(t, step, work, writes, held)
               PROVE  TypeInv'
  <2>1. at[t] = "apply" => j.item \in Lsns /\ After(t) \in Jobs
                             /\ \A writes : InOrder(t, "next", After(t), writes, held)
    <3>1. SUFFICES ASSUME at[t] = "apply"
                   PROVE  /\ j.item \in Lsns /\ After(t) \in Jobs
                          /\ \A writes : InOrder(t, "next", After(t), writes, held)
      OBVIOUS
    <3>2. j.item \in Lsns /\ j.item \in j.events /\ j.events \ {j.item} \in SUBSET Lsns
      BY <1>1, <3>1, ItemType DEF InOrder
    <3> QED BY <1>1, <3>1, <3>2 DEF InOrder, Failures, Jobs, Items, After
  <2>2. RejectStale(t) => TypeInv'
    <3>1. SUFFICES ASSUME RejectStale(t) PROVE TypeInv'
      OBVIOUS
    <3> DEFINE writes == Quarantining(t, <<"stale_lsn", j.item>>)
    <3>2. at[t] = "apply" /\ UNCHANGED db /\ Moved(t, "next", After(t), writes, held)
      BY <1>1, <3>1, RejectMoves
    <3>3. writes \in Writes
      BY <1>1, <2>1, <3>2, QuarantiningIs DEF Reasons
    <3> HIDE DEF writes
    <3> QED BY <1>2, <2>1, <3>2, <3>3 DEF Steps, Failures
  <2>3. Applied(t) => TypeInv'
    <3>1. SUFFICES ASSUME Applied(t) PROVE TypeInv'
      OBVIOUS
    <3> DEFINE c == Wal[j.item].client
               H == Appended(t)
               marks == [d \in {c} |-> j.item]
               writes == MarkedAs(t, c, H, marks)
    <3>2. at[t] = "apply" /\ UNCHANGED db /\ Moved(t, "next", After(t), writes, held)
      BY <3>1 DEF Applied
    <3>3. j.item \in Lsns /\ c \in Clients /\ j.item \in Marks \ {None} /\ IsHistory(H)
      BY <1>1, <2>1, <3>2, LogType, AppendedType DEF Marks, None
    <3>4. marks \in Partial(Clients, Marks \ {None})
      <4>1. DOMAIN marks = {c} /\ marks = [d \in DOMAIN marks |-> marks[d]]
            /\ \A d \in DOMAIN marks : marks[d] = j.item
        OBVIOUS
      <4> HIDE DEF marks
      <4> QED BY <3>3, <4>1, PartialIs
    <3> HIDE DEF H, marks, c
    <3>5. writes \in Writes
      BY <1>1, <3>3, <3>4, MarkedIs, SMTT(40)
    <3> HIDE DEF writes
    <3> QED BY <1>2, <2>1, <3>2, <3>5 DEF Steps, Failures
  <2>4. Reset(t) => TypeInv'
    <3>1. SUFFICES ASSUME Reset(t) PROVE TypeInv'
      OBVIOUS
    <3> DEFINE c == j.item
               H == Remaining(t)
               marks == RolledBack(t)
               writes == MarkedAs(t, c, H, marks)
               events == {l \in Lsns : Wal[l].client = c /\ l >= ReloadFrom[c]}
               pending == j.pending \ {c}
               work == [j EXCEPT !.pending = pending, !.item = None, !.keys = {}, !.events = events]
    <3>2. at[t] = "reset" /\ UNCHANGED db /\ Moved(t, "next", work, writes, held)
      BY <1>1, <3>1, ResetMoves
    <3>3. c \in DOMAIN ReloadFrom /\ c \in Clients
      BY <3>2, ItemType, LogType
    <3>4. IsHistory(H) /\ marks \in Partial(Clients, Marks \ {None})
      BY <1>1, <3>3, RemainingType
    <3>5. events \in SUBSET Lsns /\ pending \in SUBSET Clients /\ pending \subseteq j.pending
      BY <1>1 DEF Jobs, Items
    <3> HIDE DEF H, marks, c, events, pending
    <3>6. writes \in Writes
      BY <1>1, <3>3, <3>4, MarkedIs
    <3>7. work \in Jobs
      BY <1>1, <3>5 DEF Jobs, Items
    <3> HIDE DEF writes
    <3>8. InOrder(t, "next", work, writes, held)
      BY <1>1, <3>2, <3>5 DEF InOrder, Failures, Jobs, Items
    <3> QED BY <1>2, <3>2, <3>6, <3>7, <3>8 DEF Steps, Failures
  <2>5. InsertBaseline(t) => TypeInv'
    <3>1. SUFFICES ASSUME InsertBaseline(t) PROVE TypeInv'
      OBVIOUS
    <3> DEFINE c == j.item
               H == WithBaseline(t)
               writes == Writing(t, c, H)
               keys == Stopgaps(History(t, c))
    <3>2. /\ at[t] = "baseline" /\ UNCHANGED db
          /\ \/ Moved(t, "next", Passed(t, c), writes, held)
             \/ Moved(t, "repoint", [j EXCEPT !.keys = keys], writes, held)
      BY <1>1, <3>1, BaselineMoves
    <3>3. c \in Clients
      BY <3>2, ItemType
    <3>4. IsHistory(H) /\ keys \in SUBSET Int
      BY <1>1, <3>3, WithBaselineType, HistoryType DEF IsHistory, Stopgaps
    <3> HIDE DEF H, keys
    <3>5. writes \in Writes
      BY <1>1, <3>3, <3>4, WritingIs
    <3> HIDE DEF writes
    <3>6. Passed(t, c) \in Jobs /\ [j EXCEPT !.keys = keys] \in Jobs
      BY <1>1, <3>4 DEF Jobs, Items, Passed
    <3>7. /\ InOrder(t, "next", Passed(t, c), writes, held)
          /\ InOrder(t, "repoint", [j EXCEPT !.keys = keys], writes, held)
      BY <1>1, <3>2 DEF InOrder, Failures, Jobs, Items, Passed
    <3> QED BY <1>2, <3>2, <3>5, <3>6, <3>7 DEF Steps, Failures
  <2>6. Repoint(t) => TypeInv'
    <3>1. SUFFICES ASSUME Repoint(t) PROVE TypeInv'
      OBVIOUS
    <3> DEFINE X == PinnedTo(t, j.item, j.keys)
               writes == PinnedAs(t, X, 0)
    <3>2. at[t] = "repoint" /\ UNCHANGED db /\ Moved(t, "delete", j, writes, held)
      BY <1>1, <3>1, RepointMoves
    <3>3. X \in SUBSET Facts
      BY <1>1, PinnedToType
    <3> HIDE DEF X
    <3>4. writes \in Writes
      <4> DEFINE l == 0
      <4>1. l \in Int /\ writes = PinnedAs(t, X, l)
        OBVIOUS
      <4> HIDE DEF l, writes
      <4> QED BY <1>1, <3>3, <4>1, PinningType
    <3> HIDE DEF writes
    <3>5. InOrder(t, "delete", j, writes, held)
      BY <1>1, <3>2 DEF InOrder, Failures
    <3> QED BY <1>1, <1>2, <3>2, <3>4, <3>5 DEF Steps, Failures
  <2>7. Deleted(t) => TypeInv'
    <3>1. SUFFICES ASSUME Deleted(t) PROVE TypeInv'
      OBVIOUS
    <3> DEFINE c == j.item
               H == Delete(History(t, c), j.keys)
               writes == Writing(t, c, H)
    <3>2. at[t] = "delete" /\ UNCHANGED db /\ Moved(t, "next", Passed(t, c), writes, held)
      BY <3>1 DEF Deleted
    <3>3. c \in Clients
      BY <3>2, ItemType
    <3>4. IsHistory(H)
      BY <1>1, <3>3, DeletedType
    <3> HIDE DEF H
    <3>5. writes \in Writes
      BY <1>1, <3>3, <3>4, WritingIs
    <3> HIDE DEF writes
    <3>6. Passed(t, c) \in Jobs
      BY <1>1 DEF Jobs, Items, Passed
    <3>7. InOrder(t, "next", Passed(t, c), writes, held)
      BY <1>1, <3>2 DEF InOrder, Failures, Jobs, Items, Passed
    <3> QED BY <1>2, <3>2, <3>5, <3>6, <3>7 DEF Steps, Failures
  <2>8. StopgapInserted(t) => TypeInv'
    <3>1. SUFFICES ASSUME StopgapInserted(t) PROVE TypeInv'
      OBVIOUS
    <3>2. at[t] = "insert" /\ j.item \in Facts /\ UNCHANGED db
      BY <3>1, ItemType DEF StopgapInserted
    <3> DEFINE c == FactRow[j.item].client
               G(lsn) == WithStopgap(t, lsn)
    <3>3. PICK lsn \in j.keys : \E l \in Covering(G(lsn), FactRow[j.item].event_ts) :
              Moved(t, "pin", [j EXCEPT !.keys = {l}], Writing(t, c, G(lsn)), held)
      BY <3>1 DEF StopgapInserted
    <3> DEFINE H == G(lsn)
               writes == Writing(t, c, H)
    <3>4. PICK l \in Covering(H, FactRow[j.item].event_ts) :
              Moved(t, "pin", [j EXCEPT !.keys = {l}], writes, held)
      BY <3>3
    <3>5. c \in Clients /\ lsn \in Int /\ IsHistory(H)
      BY <1>1, <3>2, LogType, WithStopgapType, ItemType
    <3>6. l \in Int
      BY <3>5 DEF Covering, IsHistory
    <3> HIDE DEF H, c
    <3>7. writes \in Writes
      BY <1>1, <3>5, WritingIs
    <3> HIDE DEF writes
    <3>8. [j EXCEPT !.keys = {l}] \in Jobs
      BY <1>1, <3>6 DEF Jobs, Items
    <3>9. InOrder(t, "pin", [j EXCEPT !.keys = {l}], writes, held)
      BY <1>1, <3>2 DEF InOrder, Failures, Jobs, Items
    <3> QED BY <1>2, <3>2, <3>4, <3>7, <3>8, <3>9 DEF Steps, Failures
  <2>9. Pinned(t) => TypeInv'
    <3>1. SUFFICES ASSUME Pinned(t) PROVE TypeInv'
      OBVIOUS
    <3>2. at[t] = "pin" /\ j.item \in Facts /\ j.keys \subseteq Int /\ UNCHANGED db
      BY <3>1, ItemType DEF Pinned
    <3> DEFINE work == [j EXCEPT !.left = @ \ {j.item}, !.item = None, !.keys = {}]
    <3>3. PICK l \in j.keys :
              Moved(t, "next", work,
                    PinnedAs(t, {j.item}, l), held)
      BY <3>1 DEF Pinned
    <3> DEFINE writes == PinnedAs(t, {j.item}, l)
    <3>4. writes \in Writes
      <4>1. {j.item} \in SUBSET Facts /\ l \in Int
        BY <3>2
      <4> QED BY <1>1, <4>1, PinningType, ZenonT(60)
    <3>5. Moved(t, "next", work, writes, held)
      BY <3>3
    <3> HIDE DEF writes
    <3>6. work \in Jobs
      BY <1>1, <3>2 DEF Jobs, Items
    <3>7. InOrder(t, "next", work, writes, held)
      BY <1>1, <3>2 DEF InOrder, Failures, Jobs, Items
    <3> QED BY <1>2, <3>2, <3>4, <3>5, <3>6, <3>7 DEF Steps, Failures
  <2> QED BY <2>2, <2>3, <2>4, <2>5, <2>6, <2>7, <2>8, <2>9
<1> QED BY <1>1, <1>2, MovedType

\* A commit keeps the types.
LEMMA CommitType ==
    ASSUME TypeInv, NEW t \in Loads, Commit(t)
    PROVE  TypeInv'
<1>1. Shape
  BY DEF TypeInv
<1>2. db' \in Tables /\ MovedAside(t)
  BY <1>1, CommitMoves
<1>3. Shape'
  <2>1. job' \in [Loads -> Jobs]
    BY <1>2, NothingType DEF MovedAside
  <2> QED BY <1>2, <2>1 DEF Shape, MovedAside
<1>4. ASSUME NEW u \in Loads PROVE InOrder(u, at'[u], job'[u], own'[u], locks'[u])
  <2>1. CASE u = t
    BY <1>2, <2>1, NothingType DEF MovedAside, InOrder, Failures
  <2>2. CASE u # t
    <3>1. InOrder(u, at[u], job[u], own[u], locks[u])
      BY DEF TypeInv
    <3>2. /\ at'[u] = at[u] /\ own'[u] = own[u] /\ locks'[u] = locks[u]
          /\ SameWork(job[u], job'[u]) /\ job'[u] \in Jobs /\ job'[u].keys \subseteq job[u].keys
      BY <1>2, <2>2 DEF MovedAside
    <3>3. ASSUME job[u] = NoWork PROVE job'[u] = NoWork
      <4> DEFINE k == job'[u]
      <4>1. k \in Jobs /\ SameWork(NoWork, k) /\ k.keys = {}
        BY <3>2, <3>3, NothingType
      <4> HIDE DEF k
      <4>2. k = [events |-> k.events, pending |-> k.pending, left |-> k.left,
                 orphans |-> k.orphans, item |-> k.item, seen |-> k.seen, keys |-> k.keys]
        BY <4>1 DEF Jobs
      <4>3. k = NoWork
        BY <4>1, <4>2 DEF SameWork, NoWork
      <4> QED BY <4>3 DEF k
    <3> QED BY <3>1, <3>2, <3>3 DEF InOrder, SameWork
  <2> QED BY <2>1, <2>2
<1>5. \A u \in Loads : InOrder(u, at[u], job[u], own[u], locks[u])'
  BY <1>4 DEF InOrder
<1> QED BY <1>3, <1>5 DEF TypeInv

\* Every step keeps the types.
LEMMA NextType ==
    ASSUME TypeInv, [Next]_vars
    PROVE  TypeInv'
<1>1. Shape
  BY DEF TypeInv
<1>2. CASE UNCHANGED vars
  BY <1>2 DEF vars, TypeInv, Shape, InOrder
<1>3. CASE Next
  <2>1. PICK t \in Loads : StepOf(t)
    BY <1>1, <1>3, NextIs
  <2>2. CASE Ends(t) \/ Collision(t) \/ Unresolved(t)
    <3>1. \E why \in Failures : Moved(t, why, NoWork, NoWrites, {})
      BY <2>2 DEF Ends, Collision, Unresolved, Failures
    <3>2. db' \in Tables
      BY <1>1, <2>2, LoadType DEF Ends, Collision, Unresolved
    <3> QED BY <3>1, <3>2, EndType
  <2>3. CASE Commit(t)
    BY <2>3, CommitType
  <2> QED BY <2>1, <2>2, <2>3, BeginType, QuietType, WriteType DEF StepOf
<1> QED BY <1>2, <1>3

\* The initial state has them.
LEMMA InitType ==
    ASSUME Init
    PROVE  TypeInv
<1>1. \A c \in Clients : db.snap[c] \in Histories
  <2>1. SUFFICES ASSUME NEW c \in Clients PROVE db.snap[c] \in Histories
    OBVIOUS
  <2>2. IsHistory(NoHistory) /\ BaselineRow(ProfileAttrs) \in Version
    BY ConstantRowsType
  <2>3. IsHistory(Insert(NoHistory, 0, BaselineRow(ProfileAttrs)))
    BY <2>2, InsertType
  <2>4. db.snap[c] = IF c \in Seeded THEN Insert(NoHistory, 0, BaselineRow(ProfileAttrs))
                     ELSE NoHistory
    BY DEF Init
  <2> QED BY <2>2, <2>3, <2>4, HistoryIs
<1> DEFINE snap == db.snap
           wm == [c \in Clients |-> None]
<1>2. /\ db = [snap |-> snap, wm |-> wm, fact |-> Empty, rejected |-> {}]
      /\ snap = [c \in Clients |-> snap[c]]
  BY DEF Init
<1>3. Empty \in Pinnings
  <2>1. DOMAIN Empty = {} /\ Empty = [x \in DOMAIN Empty |-> Empty[x]]
    BY DEF Empty
  <2> QED BY <2>1, PartialIs DEF Pinnings
<1>4. wm \in [Clients -> Marks]
  BY DEF Marks
<1> HIDE DEF wm
<1>5. db \in Tables
  <2>1. snap \in [Clients -> Histories]
    BY <1>1, <1>2
  <2> HIDE DEF snap
  <2> QED BY <1>2, <1>3, <1>4, <2>1 DEF Tables
<1>6. Shape
  BY <1>5, NothingType DEF Init, Shape, Steps
<1>7. \A t \in Loads : InOrder(t, "ready", NoWork, NoWrites, {})
  BY NothingType DEF InOrder, Failures
<1>8. \A t \in Loads : at[t] = "ready" /\ job[t] = NoWork /\ own[t] = NoWrites /\ locks[t] = {}
  BY DEF Init
<1> QED BY <1>6, <1>7, <1>8 DEF TypeInv

\* TypeInv implies TypeOK.
LEMMA TypeInvTypes ==
    ASSUME TypeInv
    PROVE  TypeOK
<1>1. Shape
  BY DEF TypeInv
<1>2. /\ \A c \in Clients : IsHistory(db.snap[c])
      /\ db.wm \in [Clients -> Lsns \cup {None} \cup {l - 1 : l \in Lsns}]
      /\ db.rejected \subseteq Reasons \X Lsns
  BY <1>1, HistoryIs DEF Shape, Tables, Marks
<1>3. DOMAIN db.fact \subseteq Facts
  <2>1. db.fact \in Pinnings
    BY <1>1 DEF Shape, Tables
  <2> QED BY <2>1, PartialIs DEF Pinnings
<1>4. ASSUME NEW t \in Loads
      PROVE  /\ \A c \in Clients : IsHistory(own[t].rows[c].put)
             /\ DOMAIN own[t].marks \subseteq Clients
             /\ DOMAIN own[t].pins \subseteq Facts
             /\ own[t].rejected \subseteq Reasons \X Lsns
  <2>1. /\ own[t].marks \in Partial(Clients, Marks \ {None}) /\ own[t].pins \in Pinnings
        /\ own[t].rejected \subseteq Reasons \X Lsns
        /\ \A c \in Clients : own[t].rows[c].put \in Histories
    BY <1>1, LoadType DEF Writes, Edits
  <2> QED BY <2>1, HistoryIs, PartialIs DEF Pinnings
<1>5. \A t \in Loads : /\ job[t].events \subseteq Lsns /\ job[t].pending \subseteq Clients
                       /\ job[t].left \subseteq Facts /\ job[t].keys \subseteq Int
                       /\ job[t].item \in {None} \cup Lsns \cup Clients \cup Facts
  BY ItemType DEF Items
<1> QED BY <1>1, <1>2, <1>3, <1>4, <1>5 DEF TypeOK, Shape
----------------------------------------------------------------------------
(* Locks.                                                                   *)

\* A load that goes on wants nothing that another holds.
LEMMA FreeMeans ==
    ASSUME NEW t \in Loads, Free(t), NEW w \in Wants(t), NEW u \in Loads, u # t
    PROVE  w \notin Holds(u)
BY DEF Free, Blockers

\* What a load holds.
LEMMA HoldsIs ==
    ASSUME NEW u
    PROVE  /\ \A w \in locks[u] : w \in Holds(u)
           /\ \A c \in Clients : /\ \A l \in Touched(own[u].rows[c]) : <<"row", c, l>> \in Holds(u)
                                 /\ \A l \in own[u].rows[c].gone : <<"gone", c, l>> \in Holds(u)
           /\ \A x \in DOMAIN own[u].pins :
                 /\ <<"fact", x>> \in Holds(u)
                 /\ <<"pinned", FactRow[x].client, own[u].pins[x]>> \in Holds(u)
<1> DEFINE rows == UNION {RowsOf(c, DOMAIN own[u].rows[c].put \cup own[u].rows[c].gone) : c \in Clients}
           undone == UNION {{<<"gone", c, l>> : l \in own[u].rows[c].gone} : c \in Clients}
           marks == {<<"mark", c>> : c \in DOMAIN own[u].marks}
           facts == {<<"fact", x>> : x \in DOMAIN own[u].pins}
           pinned == {<<"pinned", FactRow[x].client, own[u].pins[x]>> : x \in DOMAIN own[u].pins}
<1>6. Holds(u) = locks[u] \cup rows \cup undone \cup marks \cup facts \cup pinned
  BY DEF Holds
<1>5. /\ rows \subseteq Holds(u) /\ undone \subseteq Holds(u)
      /\ facts \subseteq Holds(u) /\ pinned \subseteq Holds(u)
  <2> HIDE DEF rows, undone, marks, facts, pinned
  <2> QED BY ONLY <1>6
<1>1. \A w \in locks[u] : w \in Holds(u)
  BY DEF Holds
<1>2. ASSUME NEW c \in Clients, NEW l \in Touched(own[u].rows[c])
      PROVE  <<"row", c, l>> \in Holds(u)
  <2> DEFINE R == RowsOf(c, DOMAIN own[u].rows[c].put \cup own[u].rows[c].gone)
  <2>1. <<"row", c, l>> \in R
    BY <1>2 DEF RowsOf, Touched
  <2> QED BY <2>1 DEF Holds
<1>3. ASSUME NEW c \in Clients, NEW l \in own[u].rows[c].gone
      PROVE  <<"gone", c, l>> \in Holds(u)
  <2> DEFINE R(d) == {<<"gone", d, k>> : k \in own[u].rows[d].gone}
  <2>1. <<"gone", c, l>> \in R(c)
    BY <1>3
  <2>2. UNION {R(d) : d \in Clients} \subseteq Holds(u)
    BY <1>5
  <2> HIDE DEF R
  <2> QED BY <2>1, <2>2
<1>4. ASSUME NEW x \in DOMAIN own[u].pins
      PROVE  /\ <<"fact", x>> \in Holds(u)
             /\ <<"pinned", FactRow[x].client, own[u].pins[x]>> \in Holds(u)
  <2>1. /\ {<<"fact", y>> : y \in DOMAIN own[u].pins} \subseteq Holds(u)
        /\ {<<"pinned", FactRow[y].client, own[u].pins[y]>> : y \in DOMAIN own[u].pins}
               \subseteq Holds(u)
    BY <1>5
  <2> QED BY <1>4, <2>1
<1> QED BY <1>1, <1>2, <1>3, <1>4

\* What a load waits for before each of its steps.
LEMMA WantsIs ==
    ASSUME NEW t \in Loads
    PROVE  /\ at[t] = "next" => \A l \in FirstEvent(t) : <<"cdc_apply", Wal[l].client>> \in Wants(t)
           /\ at[t] = "next" /\ Kind[t] = "reload" /\ job[t].events = {} =>
                 \A c \in FirstClient(t) : <<"cdc_apply", c>> \in Wants(t)
           /\ at[t] = "apply" /\ job[t].item > job[t].seen =>
                 \A l \in {job[t].item} \cup Current(History(t, Wal[job[t].item].client)) :
                    <<"row", Wal[job[t].item].client, l>> \in Wants(t)
           /\ at[t] = "reset" =>
                 \A l \in job[t].keys \cup NewestBelow(History(t, job[t].item), ReloadFrom[job[t].item]) :
                    <<"row", job[t].item, l>> \in Wants(t)
           /\ at[t] = "baseline" => <<"row", job[t].item, 0>> \in Wants(t)
           /\ at[t] = "repoint" =>
                 \A x \in PinnedTo(t, job[t].item, job[t].keys) : <<"fact", x>> \in Wants(t)
           /\ at[t] = "delete" =>
                 \A l \in job[t].keys : /\ <<"row", job[t].item, l>> \in Wants(t)
                                        /\ <<"pinned", job[t].item, l>> \in Wants(t)
           /\ at[t] = "stopgap" =>
                 <<"risk_snapshot_stopgap", FactRow[job[t].item].client>> \in Wants(t)
           /\ at[t] = "insert" =>
                 \A l \in job[t].keys : <<"row", FactRow[job[t].item].client, l>> \in Wants(t)
           /\ at[t] = "pin" =>
                 /\ <<"fact", job[t].item>> \in Wants(t)
                 /\ \A l \in job[t].keys : <<"gone", FactRow[job[t].item].client, l>> \in Wants(t)
<1> DEFINE i == job[t].item
           keys == job[t].keys
<1>1. ASSUME at[t] = "next", NEW l \in FirstEvent(t)
      PROVE  <<"cdc_apply", Wal[l].client>> \in Wants(t)
  <2>1. job[t].events # {}
    BY DEF FirstEvent
  <2>2. Wants(t) = UNION {ApplyLock(Wal[k].client) \cup MarkRow(Wal[k].client) : k \in FirstEvent(t)}
    BY <1>1, <2>1 DEF Wants
  <2> DEFINE wanted(k) == ApplyLock(Wal[k].client) \cup MarkRow(Wal[k].client)
  <2>3. <<"cdc_apply", Wal[l].client>> \in wanted(l)
    BY DEF ApplyLock
  <2>4. wanted(l) \subseteq Wants(t)
    BY <1>1, <2>2
  <2> QED BY <2>3, <2>4
<1>2. ASSUME at[t] = "next", Kind[t] = "reload", job[t].events = {}, NEW c \in FirstClient(t)
      PROVE  <<"cdc_apply", c>> \in Wants(t)
  <2>1. Wants(t) = UNION {ReloadLock(d) : d \in FirstClient(t)}
    BY <1>2 DEF Wants
  <2> QED BY <2>1 DEF ReloadLock
<1>3. ASSUME at[t] = "apply", i > job[t].seen,
             NEW l \in {i} \cup Current(History(t, Wal[i].client))
      PROVE  <<"row", Wal[i].client, l>> \in Wants(t)
  <2>1. Wants(t) = {<<"mark", Wal[i].client>>}
                       \cup RowsOf(Wal[i].client, {i} \cup Current(History(t, Wal[i].client)))
    BY <1>3 DEF Wants
  <2> QED BY <2>1 DEF RowsOf
<1>4. ASSUME at[t] = "reset", NEW l \in keys \cup NewestBelow(History(t, i), ReloadFrom[i])
      PROVE  <<"row", i, l>> \in Wants(t)
  <2>1. RowsOf(i, keys \cup NewestBelow(History(t, i), ReloadFrom[i])) \subseteq Wants(t)
    BY <1>4 DEF Wants
  <2> QED BY <2>1 DEF RowsOf
<1>5. ASSUME at[t] = "baseline" PROVE <<"row", i, 0>> \in Wants(t)
  BY <1>5 DEF Wants, RowsOf
<1>6. ASSUME at[t] = "repoint", NEW x \in PinnedTo(t, i, keys) PROVE <<"fact", x>> \in Wants(t)
  BY <1>6 DEF Wants
<1>7. ASSUME at[t] = "delete", NEW l \in keys
      PROVE  <<"row", i, l>> \in Wants(t) /\ <<"pinned", i, l>> \in Wants(t)
  BY <1>7 DEF Wants, RowsOf
<1>8. ASSUME at[t] = "stopgap"
      PROVE  <<"risk_snapshot_stopgap", FactRow[i].client>> \in Wants(t)
  BY <1>8 DEF Wants, StopgapLock
<1>9. ASSUME at[t] = "insert", NEW l \in keys
      PROVE  <<"row", FactRow[i].client, l>> \in Wants(t)
  BY <1>9 DEF Wants, RowsOf
<1>10. ASSUME at[t] = "pin"
       PROVE  /\ <<"fact", i>> \in Wants(t)
              /\ \A l \in keys : <<"gone", FactRow[i].client, l>> \in Wants(t)
  BY <1>10 DEF Wants
<1> QED BY <1>1, <1>2, <1>3, <1>4, <1>5, <1>6, <1>7, <1>8, <1>9, <1>10

\* A step of one load leaves what the others see as it was, unless it commits.
LEMMA OthersSee ==
    ASSUME Shape, NEW t \in Loads, NEW step, NEW work, NEW writes, NEW held,
           Moved(t, step, work, writes, held), UNCHANGED db, NEW u \in Loads \ {t}
    PROVE  /\ at'[u] = at[u] /\ job'[u] = job[u] /\ own'[u] = own[u] /\ locks'[u] = locks[u]
           /\ \A c : History(u, c)' = History(u, c) /\ Mark(u, c)' = Mark(u, c)
           /\ \A c, lsns : PinnedTo(u, c, lsns)' = PinnedTo(u, c, lsns)
<1>1. at'[u] = at[u] /\ job'[u] = job[u] /\ own'[u] = own[u] /\ locks'[u] = locks[u]
  BY MovedOnly
<1> QED BY <1>1 DEF History, Mark, PinnedTo, Pins

\* And if it writes nothing, what it sees itself.
LEMMA ItSees ==
    ASSUME Shape, NEW t \in Loads, NEW step, NEW work, NEW writes, NEW held,
           Moved(t, step, work, writes, held), UNCHANGED db
    PROVE  /\ \A c : own[t].rows[c] = writes.rows[c] => History(t, c)' = History(t, c)
           /\ own[t].marks = writes.marks => \A c : Mark(t, c)' = Mark(t, c)
           /\ own[t].pins = writes.pins => \A c, lsns : PinnedTo(t, c, lsns)' = PinnedTo(t, c, lsns)
<1>1. own'[t] = writes
  BY MovedOnly
<1> QED BY <1>1 DEF History, Mark, PinnedTo, Pins

\* Writing a history down touches a row only if it was touched before, or if
\* what is written there is not what was read.
Differs(H, G, l) ==
    \/ l \in DOMAIN H /\ l \notin DOMAIN G
    \/ l \in DOMAIN G /\ (l \in DOMAIN H => H[l] # G[l])

\* To make H of a history is to touch the rows where they differ.
LEMMA EditTouches ==
    ASSUME NEW base \in Histories, NEW edit \in Edits, NEW H, IsHistory(H)
    PROVE  /\ \A l \in Touched(Edit(base, H)) :
                 l \in Touched(edit) \/ Differs(Read(base, edit), H, l)
           /\ \A l \in DOMAIN Edit(base, H).put :
                 l \in DOMAIN edit.put \/ l \in DOMAIN base \/ l \notin DOMAIN Read(base, edit)
<1> DEFINE R == Read(base, edit)
           E == Edit(base, H)
<1>1. /\ DOMAIN R = (DOMAIN base \ edit.gone) \cup DOMAIN edit.put
      /\ \A l \in DOMAIN R : R[l] = IF l \in DOMAIN edit.put THEN edit.put[l] ELSE base[l]
  BY ReadType
<1>2. /\ DOMAIN E.put = {l \in DOMAIN H : l \notin DOMAIN base \/ H[l] # base[l]}
      /\ E.gone = DOMAIN base \ DOMAIN H
  BY EditType
<1> HIDE DEF R, E
<1> QED BY <1>1, <1>2 DEF Touched, Differs, R, E

\* What a load must have of locks for what it has written and is about to do.
Locked(t, step, work, writes, held) ==
    /\ \A c \in DOMAIN writes.marks : <<"cdc_apply", c>> \in held
    /\ step = "apply" => /\ <<"cdc_apply", Wal[work.item].client>> \in held
                         /\ work.seen = Mark(t, Wal[work.item].client)
                         /\ writes.marks = own[t].marks
    /\ step = "reset" => <<"cdc_apply", work.item>> \in held
    /\ Kind[t] = "reload" => \A l \in work.events : <<"cdc_apply", Wal[l].client>> \in held
    /\ \A c \in Clients : \A l \in DOMAIN writes.rows[c].put :
          l < 0 => l \in DOMAIN db.snap[c] \/ <<"risk_snapshot_stopgap", c>> \in held
    /\ step \in {"allocate", "insert"} =>
          <<"risk_snapshot_stopgap", FactRow[work.item].client>> \in held
    /\ step = "insert" =>
          /\ writes.rows = own[t].rows
          /\ \A k \in work.keys :
                k < 0 => k \notin DOMAIN History(t, FactRow[work.item].client)

\* A load that gets what locks it needs, of what the others do not hold, keeps
\* the invariant.
LEMMA MovedLocks ==
    ASSUME TypeInv, LockInv, NEW t \in Loads, NEW step, NEW work, NEW writes, NEW held,
           Moved(t, step, work, writes, held), UNCHANGED db,
           Locked(t, step, work, writes, held),
           \A u \in Loads \ {t} : \A c \in Clients :
              /\ <<"cdc_apply", c>> \in held => <<"cdc_apply", c>> \notin locks[u]
              /\ <<"risk_snapshot_stopgap", c>> \in held =>
                    <<"risk_snapshot_stopgap", c>> \notin locks[u]
              /\ Touched(writes.rows[c]) \cap Touched(own[u].rows[c]) = {}
    PROVE  LockInv'
<1>1. Shape
  BY DEF TypeInv
<1>2. /\ at'[t] = step /\ job'[t] = work /\ own'[t] = writes /\ locks'[t] = held
      /\ \A u \in Loads \ {t} : /\ at'[u] = at[u] /\ job'[u] = job[u]
                                /\ own'[u] = own[u] /\ locks'[u] = locks[u]
  BY <1>1, MovedOnly
<1>3. Exclusive'
  BY <1>2 DEF LockInv, Exclusive, HoldsApply, HoldsStopgap
<1>4. RowsLocked'
  <2>1. SUFFICES ASSUME NEW u \in Loads, NEW v \in Loads, NEW c \in Clients, u # v
                 PROVE  Touched(own'[u].rows[c]) \cap Touched(own'[v].rows[c]) = {}
    BY DEF RowsLocked
  <2>2. Touched(own[u].rows[c]) \cap Touched(own[v].rows[c]) = {}
    BY <2>1 DEF LockInv, RowsLocked
  <2>3. CASE u = t
    <3>1. own'[u] = writes /\ own'[v] = own[v] /\ v \in Loads \ {t}
      BY <1>2, <2>1, <2>3
    <3> QED BY <3>1
  <2>4. CASE v = t
    <3>1. own'[v] = writes /\ own'[u] = own[u] /\ u \in Loads \ {t}
      BY <1>2, <2>1, <2>4
    <3> QED BY <3>1
  <2>5. CASE u # t /\ v # t
    BY <1>2, <2>2, <2>5
  <2> QED BY <2>3, <2>4, <2>5
<1>5. ASSUME NEW u \in Loads \ {t} PROVE MarksLocked(u)' /\ StopgapsLocked(u)'
  <2>1. MarksLocked(u) /\ StopgapsLocked(u)
    BY DEF LockInv
  <2>2. \A c : History(u, c)' = History(u, c) /\ Mark(u, c)' = Mark(u, c)
    BY <1>1, OthersSee
  <2>3. at'[u] = at[u] /\ job'[u] = job[u] /\ own'[u] = own[u] /\ locks'[u] = locks[u]
    BY <1>2
  <2> QED BY <2>1, <2>2, <2>3 DEF MarksLocked, StopgapsLocked, HoldsApply, HoldsStopgap
<1>6. MarksLocked(t)'
  <2>1. writes.marks = own[t].marks => \A c : Mark(t, c)' = Mark(t, c)
    BY <1>1, ItSees
  <2> QED BY <1>2, <2>1 DEF MarksLocked, Locked, HoldsApply
<1>7. StopgapsLocked(t)'
  <2>1. writes.rows = own[t].rows => \A c : History(t, c)' = History(t, c)
    BY <1>1, ItSees
  <2> QED BY <1>2, <2>1 DEF StopgapsLocked, Locked, HoldsStopgap
<1> QED BY <1>3, <1>4, <1>5, <1>6, <1>7 DEF LockInv

\* What it has of them already.
LEMMA LocksOf ==
    ASSUME LockInv, NEW t \in Loads, NEW u \in Loads \ {t}, NEW c \in Clients
    PROVE  /\ <<"cdc_apply", c>> \in locks[t] => <<"cdc_apply", c>> \notin locks[u]
           /\ <<"risk_snapshot_stopgap", c>> \in locks[t] =>
                 <<"risk_snapshot_stopgap", c>> \notin locks[u]
           /\ Touched(own[t].rows[c]) \cap Touched(own[u].rows[c]) = {}
BY DEF LockInv, Exclusive, RowsLocked, HoldsApply, HoldsStopgap

\* A load that ends holds nothing.
LEMMA EndLocks ==
    ASSUME TypeInv, LockInv, NEW t \in Loads, NEW why \in Failures,
           Moved(t, why, NoWork, NoWrites, {}), UNCHANGED db
    PROVE  LockInv'
<1>1. Locked(t, why, NoWork, NoWrites, {})
  BY NothingType DEF Locked, Failures
<1>2. \A c \in Clients : Touched(NoWrites.rows[c]) = {}
  BY NothingType DEF Touched
<1> QED BY <1>1, <1>2, MovedLocks

\* A step that writes no row and takes no lock keeps the invariant if it
\* has what it needs.
LEMMA QuietLocks ==
    ASSUME TypeInv, LockInv, NEW t \in Loads, NEW step, NEW work, NEW writes,
           Moved(t, step, work, writes, locks[t]), UNCHANGED db,
           writes.rows = own[t].rows, writes.marks = own[t].marks,
           step \notin {"apply", "reset", "allocate", "insert"},
           Kind[t] = "reload" => work.events \subseteq job[t].events
    PROVE  LockInv'
<1>1. MarksLocked(t) /\ StopgapsLocked(t)
  BY DEF LockInv
<1>2. Locked(t, step, work, writes, locks[t])
  BY <1>1 DEF Locked, MarksLocked, StopgapsLocked, HoldsApply, HoldsStopgap
<1> QED BY <1>2, LocksOf, MovedLocks

\* One that takes an advisory lock waits for it.
LEMMA TakenLocks ==
    ASSUME TypeInv, LockInv, NEW t \in Loads, NEW lock \in Wants(t), Free(t),
           NEW step, NEW work, NEW writes, NEW held,
           Moved(t, step, work, writes, held), UNCHANGED db, writes.rows = own[t].rows,
           \A c \in Clients :
              /\ <<"cdc_apply", c>> \in held => <<"cdc_apply", c>> \in locks[t] \cup {lock}
              /\ <<"risk_snapshot_stopgap", c>> \in held =>
                    <<"risk_snapshot_stopgap", c>> \in locks[t] \cup {lock},
           Locked(t, step, work, writes, held)
    PROVE  LockInv'
<1>1. ASSUME NEW u \in Loads \ {t} PROVE lock \notin locks[u]
  BY FreeMeans, HoldsIs
<1>2. ASSUME NEW u \in Loads \ {t}, NEW c \in Clients
      PROVE  /\ <<"cdc_apply", c>> \in held => <<"cdc_apply", c>> \notin locks[u]
             /\ <<"risk_snapshot_stopgap", c>> \in held =>
                   <<"risk_snapshot_stopgap", c>> \notin locks[u]
             /\ Touched(writes.rows[c]) \cap Touched(own[u].rows[c]) = {}
  BY <1>1, LocksOf
<1> QED BY <1>2, MovedLocks

\* One that writes a history waits for the rows of which it writes something
\* else than it read.
WritesWithLocks(t, c, H, step, work, writes) ==
    /\ \A d \in Clients : d # c => writes.rows[d] = own[t].rows[d]
    /\ \A l \in Int : Differs(History(t, c), H, l) => <<"row", c, l>> \in Wants(t)
    /\ \A l \in DOMAIN H \ DOMAIN History(t, c) :
          l < 0 => <<"risk_snapshot_stopgap", c>> \in locks[t]
    /\ \A d \in DOMAIN writes.marks : <<"cdc_apply", d>> \in locks[t]
    /\ step \notin {"apply", "reset", "allocate", "insert"}
    /\ Kind[t] = "reload" => \A l \in work.events : <<"cdc_apply", Wal[l].client>> \in locks[t]

\* A step that makes H of one client's history keeps the lock invariant, when it
\* waited for the rows where they differ.
LEMMA WrittenLocks ==
    ASSUME TypeInv, LockInv, NEW t \in Loads, Free(t), NEW c \in Clients,
           NEW H, IsHistory(H), NEW step, NEW work, NEW writes,
           Moved(t, step, work, writes, locks[t]), UNCHANGED db,
           writes.rows[c] = Edit(db.snap[c], H), WritesWithLocks(t, c, H, step, work, writes)
    PROVE  LockInv'
<1> USE DEF WritesWithLocks
<1>1. Shape /\ MarksLocked(t) /\ StopgapsLocked(t)
  BY DEF TypeInv, LockInv
<1> DEFINE base == db.snap[c]
           edit == own[t].rows[c]
<1>2. /\ base \in Histories /\ edit \in Edits /\ History(t, c) = Read(base, edit)
      /\ IsHistory(History(t, c))
  BY <1>1, HistoryType
<1>3. /\ \A l \in Touched(Edit(base, H)) :
            l \in Touched(edit) \/ Differs(Read(base, edit), H, l)
      /\ \A l \in DOMAIN Edit(base, H).put :
            l \in DOMAIN edit.put \/ l \in DOMAIN base \/ l \notin DOMAIN Read(base, edit)
      /\ DOMAIN Edit(base, H).put \subseteq DOMAIN H
  <2> HIDE DEF base, edit
  <2> QED BY <1>2, EditTouches, EditType
<1>4. ASSUME NEW u \in Loads \ {t}, NEW d \in Clients
      PROVE  Touched(writes.rows[d]) \cap Touched(own[u].rows[d]) = {}
  <2>1. Touched(own[t].rows[d]) \cap Touched(own[u].rows[d]) = {}
    BY LocksOf
  <2>2. CASE d # c
    BY <2>1, <2>2
  <2>3. CASE d = c
    <3>1. ASSUME NEW l \in Touched(Edit(base, H)) PROVE l \notin Touched(own[u].rows[c])
      <4>1. CASE l \in Touched(edit)
        BY <2>1, <2>3, <4>1
      <4>2. CASE Differs(History(t, c), H, l)
        <5>1. l \in Int
          BY <1>2, <4>2 DEF Differs, IsHistory
        <5>2. <<"row", c, l>> \notin Holds(u)
          BY <4>2, <5>1, FreeMeans
        <5> QED BY <5>2, HoldsIs
      <4> QED BY <1>2, <1>3, <4>1, <4>2
    <3> QED BY <2>3, <3>1
  <2> QED BY <2>2, <2>3
<1>5. ASSUME NEW d \in Clients, NEW l \in DOMAIN writes.rows[d].put, l < 0
      PROVE  l \in DOMAIN db.snap[d] \/ <<"risk_snapshot_stopgap", d>> \in locks[t]
  <2>1. \A k \in DOMAIN own[t].rows[d].put :
            k < 0 => k \in DOMAIN db.snap[d] \/ <<"risk_snapshot_stopgap", d>> \in locks[t]
    BY <1>1 DEF StopgapsLocked, HoldsStopgap
  <2>2. CASE d # c
    BY <1>5, <2>1, <2>2
  <2>3. CASE d = c
    BY <1>2, <1>3, <1>5, <2>1, <2>3
  <2> QED BY <2>2, <2>3
<1>6. Locked(t, step, work, writes, locks[t])
  BY <1>5 DEF Locked
<1> QED BY <1>4, <1>6, LocksOf, MovedLocks

\* Beginning one keeps it, and so do the steps that read, pin or quarantine.
LEMMA ReadingLocks ==
    ASSUME TypeInv, LockInv, NEW t \in Loads,
           \/ Begin(t) \/ RejectStale(t)
           \/ \E c \in Clients : CheckHistory(t, c)
           \/ Repoint(t) \/ BeginOrphans(t)
           \/ \E x \in Facts : Resolve(t, x)
           \/ Pinned(t)
    PROVE  LockInv'
<1> USE DEF Reasons
<1> DEFINE j == job[t]
<1>1. Shape /\ j.events \subseteq Lsns
  BY ItemType DEF TypeInv
<1>2. SUFFICES ASSUME NEW step, NEW work, NEW writes,
                      Moved(t, step, work, writes, locks[t]), UNCHANGED db,
                      writes.rows = own[t].rows, writes.marks = own[t].marks,
                      step \notin {"apply", "reset", "allocate", "insert"},
                      Kind[t] = "reload" => work.events \subseteq j.events
               PROVE  LockInv'
  <2>0. j = [events |-> j.events, pending |-> j.pending, left |-> j.left,
             orphans |-> j.orphans, item |-> j.item, seen |-> j.seen, keys |-> j.keys]
    BY ItemType
  <2>1. Begin(t) => LockInv'
    <3>1. \A S : /\ [NoWork EXCEPT !.pending = S].events = {}
                 /\ [NoWork EXCEPT !.left = S].events = {}
      BY DEF NoWork
    <3>2. SUFFICES ASSUME NEW kind, NEW work, Start(t, kind, work),
                          kind = "reload" => work.events = {}
                   PROVE  LockInv'
      BY <3>1 DEF Begin, BeginApply, BeginReload, BeginSeed, BeginFacts
    <3> QED BY <1>1, <1>2, <3>2, StartMoves
  <2>2. RejectStale(t) => LockInv'
    <3>1. SUFFICES ASSUME RejectStale(t) PROVE LockInv'
      OBVIOUS
    <3> DEFINE writes == Quarantining(t, <<"stale_lsn", j.item>>)
    <3>2. /\ at[t] = "apply" /\ UNCHANGED db
          /\ Moved(t, "next", After(t), writes, locks[t])
      BY <1>1, <3>1, RejectMoves
    <3>3. j.item \in Lsns
      BY <3>2, ItemType
    <3>4. writes.rows = own[t].rows /\ writes.marks = own[t].marks
      BY <1>1, <3>3, QuarantiningIs
    <3>5. After(t).events = j.events \ {j.item}
      BY <2>0 DEF After
    <3> HIDE DEF writes
    <3> QED BY <1>2, <3>2, <3>4, <3>5
  <2>3. (\E c \in Clients : CheckHistory(t, c)) => LockInv'
    <3>1. SUFFICES ASSUME NEW c \in Clients, CheckHistory(t, c) PROVE LockInv'
      OBVIOUS
    <3>2. Passed(t, c).events = j.events /\ [j EXCEPT !.item = c].events = j.events
      BY <2>0 DEF Passed
    <3> DEFINE passed == Passed(t, c)
               work == [j EXCEPT !.item = c]
    <3>3. /\ UNCHANGED db
          /\ \/ Moved(t, "next", passed, own[t], locks[t])
             \/ Moved(t, "baseline", work, own[t], locks[t])
      BY <1>1, <3>1, CheckHistoryMoves
    <3>4. passed.events = j.events /\ work.events = j.events
      BY <3>2
    <3> HIDE DEF passed, work
    <3> QED BY <1>2, <3>3, <3>4
  <2>4. Repoint(t) => LockInv'
    <3> DEFINE X == PinnedTo(t, j.item, j.keys)
               zero == 0
               writes == PinnedAs(t, X, zero)
    <3>1. writes.rows = own[t].rows /\ writes.marks = own[t].marks
      <4>1. X \in SUBSET Facts /\ zero \in Int
        BY <1>1, PinnedToType
      <4> HIDE DEF X, zero
      <4>2. /\ PinnedAs(t, X, zero).rows = own[t].rows
            /\ PinnedAs(t, X, zero).marks = own[t].marks
        BY <1>1, <4>1, PinningType
      <4> QED BY <4>2
    <3>2. Repoint(t) => UNCHANGED db /\ Moved(t, "delete", j, writes, locks[t])
      BY <1>1, RepointMoves
    <3> HIDE DEF writes
    <3> QED BY <1>2, <3>1, <3>2
  <2>5. BeginOrphans(t) => LockInv'
    <3> DEFINE pending == {c \in Clients : \E l \in DOMAIN History(t, c) : l < 0}
                              \ (ProfileClients \cup Excluded)
               work == [j EXCEPT !.orphans = TRUE, !.pending = pending]
    <3>1. work.events = j.events
      BY <2>0
    <3>2. BeginOrphans(t) => UNCHANGED db /\ Moved(t, "next", work, own[t], locks[t])
      BY <1>1, OrphansMoves
    <3> HIDE DEF work
    <3> QED BY <1>2, <3>1, <3>2
  <2>6. (\E x \in Facts : Resolve(t, x)) => LockInv'
    <3>1. SUFFICES ASSUME NEW x \in Facts, Resolve(t, x) PROVE LockInv'
      OBVIOUS
    <3>2. /\ \A l : [j EXCEPT !.item = x, !.keys = {l}].events = j.events
          /\ [j EXCEPT !.item = x].events = j.events
      BY <2>0
    <3>3. CASE \E l \in FoundFor(t, x) :
                  Moved(t, "pin", [j EXCEPT !.item = x, !.keys = {l}], own[t], locks[t])
      <4>1. PICK l : Moved(t, "pin", [j EXCEPT !.item = x, !.keys = {l}], own[t], locks[t])
        BY <3>3
      <4> DEFINE work == [j EXCEPT !.item = x, !.keys = {l}]
      <4>2. work.events = j.events /\ Moved(t, "pin", work, own[t], locks[t]) /\ UNCHANGED db
        BY <1>1, <3>1, <3>2, <4>1, ResolveMoves
      <4> HIDE DEF work
      <4> QED BY <1>2, <4>2
    <3>4. CASE Moved(t, "stopgap", [j EXCEPT !.item = x], own[t], locks[t])
      <4> DEFINE work == [j EXCEPT !.item = x]
      <4>1. work.events = j.events /\ Moved(t, "stopgap", work, own[t], locks[t]) /\ UNCHANGED db
        BY <1>1, <3>1, <3>2, <3>4, ResolveMoves
      <4> HIDE DEF work
      <4> QED BY <1>2, <4>1
    <3> QED BY <1>1, <3>1, <3>3, <3>4, ResolveMoves
  <2>7. Pinned(t) => LockInv'
    <3>1. SUFFICES ASSUME Pinned(t) PROVE LockInv'
      OBVIOUS
    <3>2. j.item \in Facts /\ j.keys \subseteq Int
      BY <3>1, ItemType DEF Pinned
    <3> DEFINE work == [j EXCEPT !.left = @ \ {j.item}, !.item = None, !.keys = {}]
    <3>3. PICK l \in j.keys : Moved(t, "next", work, PinnedAs(t, {j.item}, l), locks[t])
      BY <3>1 DEF Pinned
    <3> DEFINE X == {j.item}
               writes == PinnedAs(t, X, l)
    <3>4. writes.rows = own[t].rows /\ writes.marks = own[t].marks
      <4>1. X \in SUBSET Facts /\ l \in Int
        BY <3>2
      <4> HIDE DEF X
      <4>2. PinnedAs(t, X, l).rows = own[t].rows /\ PinnedAs(t, X, l).marks = own[t].marks
        BY ONLY <1>1, <4>1, PinningType, t \in Loads
      <4> QED BY <4>2
    <3>5. work.events = j.events
      BY <2>0
    <3>6. Moved(t, "next", work, writes, locks[t]) /\ UNCHANGED db
      BY <3>1, <3>3 DEF Pinned
    <3> HIDE DEF work, writes
    <3> QED BY <1>2, <3>4, <3>5, <3>6
  <2> QED BY <2>1, <2>2, <2>3, <2>4, <2>5, <2>6, <2>7
<1> QED BY <1>2, QuietLocks

\* A step that takes the apply lock, or the stopgap lock, keeps it.
LEMMA TakingLocks ==
    ASSUME TypeInv, LockInv, NEW t \in Loads,
           \/ \E l \in Lsns : LockEvent(t, l)
           \/ \E c \in Clients : LockForReset(t, c)
           \/ StopgapAllowed(t)
    PROVE  LockInv'
<1> DEFINE j == job[t]
<1>1. /\ Shape /\ MarksLocked(t) /\ StopgapsLocked(t)
      /\ j.events \subseteq Lsns
      /\ j.events # {} => Kind[t] \in {"apply", "reload"}
  BY ItemType DEF TypeInv, LockInv, InOrder
<1>2. /\ \A c \in DOMAIN own[t].marks : <<"cdc_apply", c>> \in locks[t]
      /\ Kind[t] = "reload" => \A l \in j.events : <<"cdc_apply", Wal[l].client>> \in locks[t]
      /\ \A c \in Clients : \A l \in DOMAIN own[t].rows[c].put :
            l < 0 => l \in DOMAIN db.snap[c] \/ <<"risk_snapshot_stopgap", c>> \in locks[t]
  BY <1>1 DEF MarksLocked, StopgapsLocked, HoldsApply, HoldsStopgap
<1>3. j = [events |-> j.events, pending |-> j.pending, left |-> j.left,
           orphans |-> j.orphans, item |-> j.item, seen |-> j.seen, keys |-> j.keys]
  BY ItemType
<1>4. ASSUME NEW l \in Lsns, LockEvent(t, l) PROVE LockInv'
  <2> DEFINE c == Wal[l].client
             lock == <<"cdc_apply", c>>
  <2>1. /\ at[t] = "next" /\ l \in FirstEvent(t) /\ Free(t) /\ UNCHANGED db
        /\ lock \in Wants(t) /\ l \in j.events /\ c \in Clients
    BY <1>1, <1>4, LockEventMoves, WantsIs, LogType DEF FirstEvent
  <2>2. CASE Moved(t, "next", [j EXCEPT !.events = @ \ {l}],
                   Quarantining(t, <<"delete_with_no_baseline", l>>), locks[t] \cup ApplyLock(c))
    <3> DEFINE work == [j EXCEPT !.events = @ \ {l}]
               writes == Quarantining(t, <<"delete_with_no_baseline", l>>)
               held == locks[t] \cup ApplyLock(c)
    <3>1. work.events = j.events \ {l}
      BY <1>3
    <3>2. locks[t] \subseteq held /\ \A w \in held : w \in locks[t] \cup {lock}
      BY DEF ApplyLock
    <3>3. writes.rows = own[t].rows /\ writes.marks = own[t].marks
      BY <1>1, QuarantiningIs DEF Reasons
    <3> HIDE DEF work, writes, lock, held
    <3>4. Locked(t, "next", work, writes, held)
      BY <1>2, <3>1, <3>2, <3>3 DEF Locked
    <3> QED BY <2>1, <2>2, <3>2, <3>3, <3>4, TakenLocks DEF work, writes, held
  <2>3. CASE Moved(t, "apply", [j EXCEPT !.item = l, !.seen = Mark(t, c)], own[t],
                   locks[t] \cup MarkRow(c) \cup IF Kind[t] = "apply" THEN ApplyLock(c) ELSE {})
    <3> DEFINE work == [j EXCEPT !.item = l, !.seen = Mark(t, c)]
               held == locks[t] \cup MarkRow(c) \cup IF Kind[t] = "apply" THEN ApplyLock(c) ELSE {}
    <3>1. work.events = j.events /\ work.item = l /\ work.seen = Mark(t, c)
      BY <1>3
    <3>2. locks[t] \subseteq held /\ \A w \in held : w \in locks[t] \cup {lock, <<"mark", c>>}
      BY DEF ApplyLock, MarkRow
    <3>3. lock \in held
      <4>1. Kind[t] = "reload" => lock \in locks[t]
        BY <1>2, <2>1
      <4>2. Kind[t] = "apply" \/ Kind[t] = "reload"
        BY <1>1, <2>1
      <4> QED BY <4>1, <4>2 DEF ApplyLock
    <3>4. \A d \in Clients :
              /\ <<"cdc_apply", d>> \in held => <<"cdc_apply", d>> \in locks[t] \cup {lock}
              /\ <<"risk_snapshot_stopgap", d>> \in held =>
                    <<"risk_snapshot_stopgap", d>> \in locks[t] \cup {lock}
      <4> HIDE DEF held, lock
      <4> QED BY <3>2
    <3> HIDE DEF work, held
    <3>5. Locked(t, "apply", work, own[t], held)
      BY <1>2, <3>1, <3>2, <3>3 DEF Locked
    <3> HIDE DEF lock
    <3> QED BY <2>1, <2>3, <3>4, <3>5, TakenLocks DEF work, held
  <2> QED BY <1>1, <1>4, <2>2, <2>3, LockEventMoves
<1>5. ASSUME NEW c \in Clients, LockForReset(t, c) PROVE LockInv'
  <2> DEFINE lock == <<"cdc_apply", c>>
             keys == {l \in DOMAIN History(t, c) : l >= ReloadFrom[c]}
             work == [j EXCEPT !.item = c, !.keys = keys]
             held == locks[t] \cup ReloadLock(c)
  <2>1. /\ at[t] = "next" /\ Kind[t] = "reload" /\ j.events = {} /\ c \in FirstClient(t)
        /\ Free(t) /\ UNCHANGED db /\ Moved(t, "reset", work, own[t], held)
        /\ lock \in Wants(t)
    BY <1>1, <1>5, LockForResetMoves, WantsIs
  <2>2. locks[t] \subseteq held /\ lock \in held /\ \A w \in held : w \in locks[t] \cup {lock}
    BY DEF ReloadLock
  <2>3. work.item = c /\ work.events = {}
    BY <1>3, <2>1
  <2> HIDE DEF work, held
  <2>4. Locked(t, "reset", work, own[t], held)
    BY <1>2, <2>2, <2>3 DEF Locked
  <2> HIDE DEF lock
  <2> QED BY <2>1, <2>2, <2>4, TakenLocks
<1>6. ASSUME StopgapAllowed(t) PROVE LockInv'
  <2> DEFINE c == FactRow[j.item].client
             lock == <<"risk_snapshot_stopgap", c>>
             held == locks[t] \cup StopgapLock(c)
  <2>1. /\ at[t] = "stopgap" /\ Free(t) /\ UNCHANGED db
        /\ Moved(t, "allocate", j, own[t], held) /\ lock \in Wants(t)
    BY <1>6, WantsIs DEF StopgapAllowed
  <2>2. locks[t] \subseteq held /\ lock \in held /\ \A w \in held : w \in locks[t] \cup {lock}
    BY DEF StopgapLock
  <2> HIDE DEF held
  <2>3. Locked(t, "allocate", j, own[t], held)
    BY <1>2, <2>2 DEF Locked
  <2> HIDE DEF lock
  <2> QED BY <2>1, <2>2, <2>3, TakenLocks
<1> QED BY <1>4, <1>5, <1>6

\* The lsn chosen for a stopgap is not in use.
LEMMA StopgapLsnsAreNew ==
    ASSUME NEW H, DOMAIN H \subseteq Int, NEW k \in StopgapLsns(H)
    PROVE  /\ k \in Int /\ k \notin DOMAIN H /\ \A other \in DOMAIN H : k < other
           /\ (\A other \in DOMAIN H : other <= 0) => k < 0
<1>1. CASE DOMAIN H = {}
  BY <1>1 DEF StopgapLsns
<1>2. CASE DOMAIN H # {}
  <2>1. PICK m \in DOMAIN H : k = m - 1 /\ \A other \in DOMAIN H : m <= other
    BY <1>2 DEF StopgapLsns
  <2> QED BY <2>1
<1> QED BY <1>1, <1>2

\* Choosing it keeps the lock invariant.
LEMMA AllocatingLocks ==
    ASSUME TypeInv, LockInv, NEW t \in Loads, AllocateStopgap(t)
    PROVE  LockInv'
<1> DEFINE j == job[t]
           c == FactRow[j.item].client
           H == HistoryOfItem(t)
           work == [j EXCEPT !.keys = StopgapLsns(H)]
<1>1. Shape /\ MarksLocked(t) /\ StopgapsLocked(t)
  BY DEF TypeInv, LockInv
<1>2. /\ at[t] = "allocate" /\ UNCHANGED db /\ Moved(t, "insert", work, own[t], locks[t])
  BY <1>1, AllocateMoves
<1>3. /\ work.item = j.item /\ work.keys = StopgapLsns(H) /\ work.events = j.events
  <2>1. j = [events |-> j.events, pending |-> j.pending, left |-> j.left,
             orphans |-> j.orphans, item |-> j.item, seen |-> j.seen, keys |-> j.keys]
    BY ItemType
  <2> QED BY <2>1
<1>4. H = History(t, c) /\ DOMAIN H \subseteq Int
  <2>1. c \in Clients
    BY <1>2, LogType, ItemType
  <2> QED BY <1>1, <2>1, HistoryType DEF HistoryOfItem, IsHistory
<1>5. \A k \in StopgapLsns(H) : k \notin DOMAIN H
  BY <1>4, StopgapLsnsAreNew
<1>6. /\ \A d \in DOMAIN own[t].marks : <<"cdc_apply", d>> \in locks[t]
      /\ Kind[t] = "reload" => \A l \in j.events : <<"cdc_apply", Wal[l].client>> \in locks[t]
      /\ \A d \in Clients : \A l \in DOMAIN own[t].rows[d].put :
            l < 0 => l \in DOMAIN db.snap[d] \/ <<"risk_snapshot_stopgap", d>> \in locks[t]
      /\ <<"risk_snapshot_stopgap", c>> \in locks[t]
  BY <1>1, <1>2 DEF MarksLocked, StopgapsLocked, HoldsApply, HoldsStopgap
<1> HIDE DEF work, H
<1>7. Locked(t, "insert", work, own[t], locks[t])
  BY <1>3, <1>4, <1>5, <1>6 DEF Locked
<1> QED BY <1>2, <1>7, LocksOf, MovedLocks

\* Where an appended change, a reset and a stopgap or baseline differ from
\* what was read.
LEMMA AppendedDiffers ==
    ASSUME Shape, NEW t \in Loads, job[t].item \in Lsns
    PROVE  \A l \in Int :
              Differs(History(t, Wal[job[t].item].client), Appended(t), l) =>
                 l \in {job[t].item} \cup Current(History(t, Wal[job[t].item].client))
<1> DEFINE i == job[t].item
           ts == Wal[i].commit_ts
           H == History(t, Wal[i].client)
           E == EndDateCurrent(H, ts)
<1>1. /\ DOMAIN E = DOMAIN H
      /\ \A l \in DOMAIN H \ Current(H) : E[l] = H[l]
  BY ZenonT(60) DEF EndDateCurrent, Current
<1>2. Appended(t) = E \/ \E row : Appended(t) = Insert(E, i, row)
  BY DEF Appended, ApplyDelete, ApplyUpsert
<1> HIDE DEF E, H
<1>3. ASSUME NEW row, NEW l \in Int, Differs(H, Insert(E, i, row), l)
      PROVE  l \in {i} \cup Current(H)
  <2>1. /\ DOMAIN Insert(E, i, row) = DOMAIN H \cup {i}
        /\ \A k \in DOMAIN H : Insert(E, i, row)[k] = E[k]
    BY <1>1 DEF Insert
  <2> QED BY <1>1, <1>3, <2>1 DEF Differs
<1>4. ASSUME NEW l \in Int, Differs(H, E, l) PROVE l \in Current(H)
  BY <1>1, <1>4 DEF Differs
<1> QED BY <1>2, <1>3, <1>4, SMTT(40) DEF H

\* A reset touches the rows it deletes and the one it opens again.
LEMMA RemainingDiffers ==
    ASSUME Shape, NEW t \in Loads, job[t].item \in DOMAIN ReloadFrom
    PROVE  \A l \in Int :
              Differs(History(t, job[t].item), Remaining(t), l) =>
                 l \in job[t].keys
                          \cup NewestBelow(History(t, job[t].item), ReloadFrom[job[t].item])
<1> DEFINE c == job[t].item
           from == ReloadFrom[c]
           H == History(t, c)
           missed == {l \in DOMAIN H : l >= from} \ job[t].keys
           kept == [l \in missed |-> H[l]]
           below == ResetFrom(H, from)
<1>1. /\ Remaining(t) = Overlay(below, kept)
      /\ DOMAIN Remaining(t) = DOMAIN H \ {l \in job[t].keys : l >= from}
      /\ IsHistory(H) /\ from \in Int
  <2>1. from \in Int /\ c \in Clients
    BY LogType
  <2> QED BY <2>1, RemainingType, HistoryType DEF Remaining
<1>2. /\ DOMAIN below = Below(H, from)
      /\ \A l \in Below(H, from) \ NewestBelow(H, from) : below[l] = H[l]
  BY DEF ResetFrom, NewestBelow
<1>3. DOMAIN kept = missed /\ \A l \in missed : kept[l] = H[l]
  OBVIOUS
<1> HIDE DEF below, kept
<1>4. \A l \in DOMAIN below \cup missed :
          Overlay(below, kept)[l] = IF l \in missed THEN kept[l] ELSE below[l]
  BY <1>3, OverlayIs, ZenonT(60)
<1> HIDE DEF H, from, c
<1>5. ASSUME NEW l \in Int, Differs(H, Remaining(t), l), l \notin job[t].keys
      PROVE  l \in NewestBelow(H, from)
  <2>1. l \in DOMAIN H /\ l \in DOMAIN Remaining(t) /\ H[l] # Remaining(t)[l]
    BY <1>1, <1>5 DEF Differs
  <2>2. l \notin missed
    BY <1>1, <1>3, <1>4, <2>1
  <2>3. l \in Below(H, from)
    BY <1>1, <1>5, <2>1, <2>2 DEF Below
  <2> QED BY <1>1, <1>2, <1>4, <2>1, <2>2, <2>3
<1> QED BY <1>5 DEF H, from, c

\* Steps that write histories keep the invariant.
LEMMA WritingLocks ==
    ASSUME TypeInv, LockInv, NEW t \in Loads,
           \/ Applied(t) \/ Reset(t) \/ InsertBaseline(t) \/ Deleted(t) \/ StopgapInserted(t)
    PROVE  LockInv'
<1> DEFINE j == job[t]
           i == j.item
<1>1. /\ Shape /\ MarksLocked(t) /\ StopgapsLocked(t)
      /\ InOrder(t, at[t], j, own[t], locks[t])
  BY ItemType DEF TypeInv, LockInv
<1>2. /\ \A c \in DOMAIN own[t].marks : <<"cdc_apply", c>> \in locks[t]
      /\ Kind[t] = "reload" => \A l \in j.events : <<"cdc_apply", Wal[l].client>> \in locks[t]
  BY <1>1 DEF MarksLocked, HoldsApply
<1>3. j = [events |-> j.events, pending |-> j.pending, left |-> j.left,
           orphans |-> j.orphans, item |-> j.item, seen |-> j.seen, keys |-> j.keys]
  BY ItemType
<1>4. CASE Applied(t)
  <2> DEFINE c == Wal[i].client
             H == Appended(t)
             mark == [d \in {c} |-> i]
             writes == MarkedAs(t, c, H, mark)
             work == After(t)
  <2>1. at[t] = "apply" /\ i > j.seen /\ Free(t) /\ UNCHANGED db
    BY <1>4 DEF Applied
  <2>2. Moved(t, "next", After(t), writes, locks[t])
    BY ONLY <1>4 DEF Applied
  <2>3. i \in Lsns /\ c \in Clients /\ i \in Int /\ i > 0
    <3>1. i \in Lsns
      BY <2>1, ItemType
    <3> QED BY <3>1, LogType
  <2>4. IsHistory(H)
    BY <1>1, <2>3, AppendedType
  <2>5. \A l \in Int : Differs(History(t, c), H, l) => <<"row", c, l>> \in Wants(t)
    BY <1>1, <2>1, <2>3, AppendedDiffers, WantsIs
  <2>6. \A l \in DOMAIN H \ DOMAIN History(t, c) : ~ (l < 0)
    <3>1. \A l \in DOMAIN H \ DOMAIN History(t, c) : l \in Int /\ Differs(History(t, c), H, l)
      BY <2>4 DEF Differs, IsHistory
    <3>2. \A l \in DOMAIN H \ DOMAIN History(t, c) : l = i
      BY <1>1, <2>3, <3>1, AppendedDiffers DEF Current
    <3> QED BY <2>3, <3>2
  <2>7. mark \in Partial(Clients, Marks \ {None}) /\ DOMAIN mark = {c}
    <3>1. DOMAIN mark = {c} /\ mark[c] = i /\ mark = [d \in DOMAIN mark |-> mark[d]]
      OBVIOUS
    <3>2. i \in Marks \ {None}
      BY <2>3 DEF Marks, None
    <3> HIDE DEF mark
    <3> QED BY <2>3, <3>1, <3>2, PartialIs
  <2> HIDE DEF H, mark
  <2>8. /\ writes.rows[c] = Edit(db.snap[c], H)
        /\ \A d \in Clients : d # c => writes.rows[d] = own[t].rows[d]
        /\ writes.marks = Overlay(own[t].marks, mark)
    <3> HIDE DEF c, i, j
    <3>1. /\ MarkedAs(t, c, H, mark).rows[c] = Edit(db.snap[c], H)
          /\ MarkedAs(t, c, H, mark).marks = Overlay(own[t].marks, mark)
      BY ONLY <1>1, <2>3, <2>4, <2>7, MarkedIs, t \in Loads
    <3>2. ASSUME NEW d \in Clients, d # c PROVE MarkedAs(t, c, H, mark).rows[d] = own[t].rows[d]
      <4>1. mark \in Partial(Clients, Marks \ {None})
        BY <2>7
      <4> QED BY ONLY <1>1, <2>3, <2>4, <3>2, <4>1, MarkedIs, t \in Loads, d \in Clients
    <3> QED BY <3>1, <3>2
  <2>9. \A d \in DOMAIN writes.marks : <<"cdc_apply", d>> \in locks[t]
    <3>1. DOMAIN writes.marks = DOMAIN own[t].marks \cup {c}
      BY <2>7, <2>8, OverlayIs, Zenon
    <3>2. <<"cdc_apply", c>> \in locks[t]
      BY <1>1, <2>1 DEF MarksLocked, HoldsApply
    <3> QED BY <1>2, <3>1, <3>2
  <2>10. Kind[t] = "reload" => \A l \in work.events : <<"cdc_apply", Wal[l].client>> \in locks[t]
    BY <1>2, <1>3 DEF After
  <2>11. \A l \in DOMAIN H \ DOMAIN History(t, c) :
             l < 0 => <<"risk_snapshot_stopgap", c>> \in locks[t]
    BY <2>6
  <2> DEFINE step == "next"
  <2>12. WritesWithLocks(t, c, H, step, work, writes)
    <3> HIDE DEF writes, work, c
    <3> QED BY <2>5, <2>8, <2>9, <2>10, <2>11 DEF WritesWithLocks
  <2>13. Moved(t, step, work, writes, locks[t])
    BY <2>2
  <2> HIDE DEF writes, work, c, i, j, step
  <2> QED BY <2>1, <2>3, <2>4, <2>8, <2>12, <2>13, WrittenLocks
<1>5. CASE Reset(t)
  <2> DEFINE H == Remaining(t)
             events == {l \in Lsns : Wal[l].client = i /\ l >= ReloadFrom[i]}
             work == [j EXCEPT !.pending = @ \ {i}, !.item = None, !.keys = {}, !.events = events]
             writes == MarkedAs(t, i, H, RolledBack(t))
  <2>1. /\ at[t] = "reset" /\ Free(t) /\ UNCHANGED db
        /\ Moved(t, "next", work, writes, locks[t])
    BY <1>1, <1>5, ResetMoves
  <2>2. i \in DOMAIN ReloadFrom /\ i \in Clients
    BY <2>1, ItemType, LogType
  <2>3. /\ IsHistory(H) /\ DOMAIN H \subseteq DOMAIN History(t, i)
        /\ RolledBack(t) \in Partial(Clients, Marks \ {None})
        /\ DOMAIN RolledBack(t) \subseteq {i}
    BY <1>1, <2>2, RemainingType
  <2>4. \A l \in Int : Differs(History(t, i), H, l) => <<"row", i, l>> \in Wants(t)
    BY <1>1, <2>1, <2>2, RemainingDiffers, WantsIs
  <2>5. work.events = events
    BY <1>3
  <2>10. /\ \A l \in DOMAIN H \ DOMAIN History(t, i) :
              l < 0 => <<"risk_snapshot_stopgap", i>> \in locks[t]
         /\ "next" \notin {"apply", "reset", "allocate", "insert"}
    BY <2>3
  <2> DEFINE mark == RolledBack(t)
  <2> HIDE DEF H, mark
  <2>6. /\ writes.rows[i] = Edit(db.snap[i], H)
        /\ \A d \in Clients : d # i => writes.rows[d] = own[t].rows[d]
        /\ writes.marks = Overlay(own[t].marks, mark)
    <3> DEFINE c == i
    <3>1. c \in Clients /\ mark \in Partial(Clients, Marks \ {None})
      BY <2>2, <2>3 DEF mark
    <3>2. writes = MarkedAs(t, c, H, mark)
      BY DEF mark
    <3>3. IsHistory(H)
      BY <2>3
    <3> HIDE DEF writes, c
    <3>4. /\ writes.rows[c] = Edit(db.snap[c], H)
          /\ writes.marks = Overlay(own[t].marks, mark)
      BY ONLY <1>1, <3>1, <3>2, <3>3, MarkedIs, t \in Loads, ZenonT(60)
    <3>5. ASSUME NEW d \in Clients, d # c PROVE writes.rows[d] = own[t].rows[d]
      <4>1. MarkedAs(t, c, H, mark).rows[d] = own[t].rows[d]
        <5>1. Shape /\ mark \in Partial(Clients, Marks \ {None}) /\ c \in Clients
          BY <1>1, <3>1
        <5> HIDE DEF i, j, work, events
        <5> QED BY <3>3, <3>5, <5>1, MarkedIs
      <4> QED BY <3>2, <4>1
    <3> QED BY <3>4, <3>5 DEF c
  <2>7. <<"cdc_apply", i>> \in locks[t]
    BY <1>1, <2>1 DEF MarksLocked, HoldsApply
  <2>8. \A d \in DOMAIN writes.marks : <<"cdc_apply", d>> \in locks[t]
    <3>1. DOMAIN writes.marks = DOMAIN own[t].marks \cup DOMAIN mark
      BY <2>6, OverlayIs
    <3> QED BY <1>2, <2>3, <2>7, <3>1 DEF mark
  <2>9. \A l \in work.events : <<"cdc_apply", Wal[l].client>> \in locks[t]
    BY <2>5, <2>7
  <2> DEFINE c == i
             step == "next"
  <2>11. WritesWithLocks(t, c, H, step, work, writes)
    <3> HIDE DEF writes, work
    <3> QED BY <2>4, <2>6, <2>8, <2>9, <2>10 DEF WritesWithLocks
  <2>12. /\ Moved(t, step, work, writes, locks[t]) /\ writes.rows[c] = Edit(db.snap[c], H)
         /\ c \in Clients /\ IsHistory(H)
    BY <2>1, <2>2, <2>3, <2>6 DEF H
  <2> HIDE DEF writes, work, c, i, j, step
  <2> QED BY <2>1, <2>11, <2>12, WrittenLocks, SMTT(40)
<1>6. ASSUME NEW c \in Clients, NEW H, IsHistory(H), NEW step \in {"next", "repoint", "pin"},
             NEW work, work.events = j.events, Free(t), UNCHANGED db,
             Moved(t, step, work, Writing(t, c, H), locks[t]),
             \A l \in Int : Differs(History(t, c), H, l) => <<"row", c, l>> \in Wants(t),
             \A l \in DOMAIN H \ DOMAIN History(t, c) :
                l < 0 => <<"risk_snapshot_stopgap", c>> \in locks[t]
      PROVE  LockInv'
  <2> DEFINE writes == Writing(t, c, H)
  <2>1. /\ writes.rows[c] = Edit(db.snap[c], H)
        /\ \A d \in Clients : d # c => writes.rows[d] = own[t].rows[d]
        /\ writes.marks = own[t].marks
    BY <1>1, <1>6, WritingIs
  <2>2. \A d \in DOMAIN writes.marks : <<"cdc_apply", d>> \in locks[t]
    BY <1>2, <2>1
  <2>3. Kind[t] = "reload" => \A l \in work.events : <<"cdc_apply", Wal[l].client>> \in locks[t]
    BY <1>2, <1>6
  <2>4. /\ Moved(t, step, work, writes, locks[t])
        /\ step \notin {"apply", "reset", "allocate", "insert"}
    BY <1>6
  <2> HIDE DEF writes
  <2>5. WritesWithLocks(t, c, H, step, work, writes)
    BY <1>6, <2>1, <2>2, <2>3, <2>4 DEF WritesWithLocks
  <2> QED BY <1>6, <2>1, <2>4, <2>5, WrittenLocks
<1>7. CASE InsertBaseline(t)
  <2> DEFINE H == WithBaseline(t)
  <2>1. at[t] = "baseline" /\ Free(t) /\ UNCHANGED db
    BY <1>1, <1>7, BaselineMoves
  <2>2. i \in Clients /\ <<"row", i, 0>> \in Wants(t)
    BY <2>1, ItemType, WantsIs
  <2>3. /\ IsHistory(H) /\ DOMAIN H = DOMAIN History(t, i) \cup {0}
        /\ \A l \in DOMAIN History(t, i) : H[l] = History(t, i)[l]
    BY <1>1, <2>2, WithBaselineType
  <2>4. /\ \A l \in Int : Differs(History(t, i), H, l) => l = 0
        /\ \A l \in DOMAIN H \ DOMAIN History(t, i) : l = 0
    BY <2>3 DEF Differs
  <2> DEFINE passed == Passed(t, i)
             repointing == [j EXCEPT !.keys = Stopgaps(History(t, i))]
             writes == Writing(t, i, H)
  <2>5. \/ Moved(t, "next", passed, writes, locks[t])
        \/ Moved(t, "repoint", repointing, writes, locks[t])
    BY <1>1, <1>7, BaselineMoves
  <2>6. passed.events = j.events /\ repointing.events = j.events
    BY <1>3 DEF Passed
  <2>7. PICK step \in {"next", "repoint"}, work \in {passed, repointing} :
            Moved(t, step, work, writes, locks[t]) /\ work.events = j.events
    BY <2>5, <2>6
  <2>8. /\ \A l \in Int : Differs(History(t, i), H, l) => <<"row", i, l>> \in Wants(t)
        /\ \A l \in DOMAIN H \ DOMAIN History(t, i) :
              l < 0 => <<"risk_snapshot_stopgap", i>> \in locks[t]
    BY <2>2, <2>4
  <2> HIDE DEF H, passed, repointing
  <2> QED BY <1>6, <2>1, <2>2, <2>3, <2>7, <2>8
<1>8. CASE Deleted(t)
  <2> DEFINE H == Delete(History(t, i), j.keys)
             work == Passed(t, i)
  <2>1. /\ at[t] = "delete" /\ Free(t) /\ UNCHANGED db
        /\ Moved(t, "next", work, Writing(t, i, H), locks[t])
    BY <1>8 DEF Deleted
  <2>2. i \in Clients /\ \A l \in j.keys : <<"row", i, l>> \in Wants(t)
    BY <2>1, ItemType, WantsIs
  <2>3. /\ IsHistory(H) /\ DOMAIN H = DOMAIN History(t, i) \ j.keys
        /\ \A l \in DOMAIN History(t, i) \ j.keys : H[l] = History(t, i)[l]
    BY <1>1, <2>2, DeletedType
  <2>4. \A l \in Int : Differs(History(t, i), H, l) => l \in j.keys
    BY <2>3 DEF Differs
  <2>5. work.events = j.events
    BY <1>3 DEF Passed
  <2> HIDE DEF H, work
  <2> QED BY <1>6, <2>1, <2>2, <2>3, <2>4, <2>5
<1>9. CASE StopgapInserted(t)
  <2>1. at[t] = "insert" /\ Free(t) /\ UNCHANGED db
    BY <1>9 DEF StopgapInserted
  <2>2. PICK lsn \in j.keys : \E l : Moved(t, "pin", [j EXCEPT !.keys = {l}],
                    Writing(t, FactRow[i].client, WithStopgap(t, lsn)), locks[t])
    BY <1>9 DEF StopgapInserted
  <2>3. PICK l : Moved(t, "pin", [j EXCEPT !.keys = {l}],
                    Writing(t, FactRow[i].client, WithStopgap(t, lsn)), locks[t])
    BY <2>2
  <2> DEFINE c == FactRow[i].client
             H == WithStopgap(t, lsn)
             work == [j EXCEPT !.keys = {l}]
  <2>4. i \in Facts /\ c \in Clients /\ lsn \in Int /\ <<"row", c, lsn>> \in Wants(t)
    BY <2>1, ItemType, LogType, WantsIs
  <2>5. History(t, c) = HistoryOfItem(t) /\ <<"risk_snapshot_stopgap", c>> \in locks[t]
    BY <1>1, <2>1 DEF HistoryOfItem, StopgapsLocked, HoldsStopgap
  <2>6. /\ IsHistory(H) /\ DOMAIN H = DOMAIN History(t, c) \cup {lsn}
        /\ \A k \in DOMAIN History(t, c) : H[k] = History(t, c)[k]
    BY <1>1, <2>4, <2>5, WithStopgapType, SMTT(40)
  <2>7. \A k \in Int : Differs(History(t, c), H, k) => k = lsn
    BY <2>6 DEF Differs
  <2>8. work.events = j.events /\ Moved(t, "pin", work, Writing(t, c, H), locks[t])
    BY <1>3, <2>3
  <2> HIDE DEF H, work, c
  <2> QED BY <1>6, <2>1, <2>4, <2>5, <2>6, <2>7, <2>8
<1> QED BY <1>4, <1>5, <1>7, <1>8, <1>9

\* A commit keeps it: what others have locked is not what is committed.
LEMMA CommitLocks ==
    ASSUME TypeInv, LockInv, NEW t \in Loads, Commit(t)
    PROVE  LockInv'
<1>1. /\ Shape /\ db'.snap = [c \in Clients |-> History(t, c)]
      /\ db'.wm = [c \in Clients |-> Mark(t, c)]
      /\ MovedAside(t)
  BY CommitMoves DEF TypeInv
<1>2. /\ at'[t] = "committed" /\ job'[t] = NoWork /\ own'[t] = NoWrites /\ locks'[t] = {}
      /\ \A u \in Loads \ {t} : /\ at'[u] = at[u] /\ own'[u] = own[u] /\ locks'[u] = locks[u]
                                /\ job'[u].item = job[u].item /\ job'[u].seen = job[u].seen
                                /\ job'[u].events = job[u].events
                                /\ job'[u].keys \subseteq job[u].keys
  BY <1>1 DEF MovedAside, SameWork
<1>3. Exclusive'
  BY <1>2 DEF LockInv, Exclusive, HoldsApply, HoldsStopgap
<1>4. RowsLocked'
  <2>1. SUFFICES ASSUME NEW u \in Loads, NEW v \in Loads, NEW c \in Clients, u # v
                 PROVE  Touched(own'[u].rows[c]) \cap Touched(own'[v].rows[c]) = {}
    BY DEF RowsLocked
  <2>2. Touched(own[u].rows[c]) \cap Touched(own[v].rows[c]) = {}
    BY <2>1 DEF LockInv, RowsLocked
  <2>3. Touched(NoWrites.rows[c]) = {}
    BY NothingType DEF Touched
  <2> QED BY <1>2, <2>2, <2>3
<1>5. MarksLocked(t)' /\ StopgapsLocked(t)'
  BY <1>2, NothingType DEF MarksLocked, StopgapsLocked
<1>6. ASSUME NEW u \in Loads \ {t} PROVE MarksLocked(u)' /\ StopgapsLocked(u)'
  <2>1. /\ MarksLocked(u) /\ StopgapsLocked(u) /\ MarksLocked(t) /\ StopgapsLocked(t)
        /\ at'[u] = at[u] /\ own'[u] = own[u] /\ locks'[u] = locks[u]
        /\ job'[u].item = job[u].item /\ job'[u].seen = job[u].seen
        /\ job'[u].events = job[u].events /\ job'[u].keys \subseteq job[u].keys
    BY <1>2 DEF LockInv
  <2>2. ASSUME NEW c \in Clients, HoldsApply(u, c) PROVE Mark(u, c)' = Mark(u, c)
    <3>1. c \notin DOMAIN own[t].marks
      BY <2>1, <2>2 DEF LockInv, Exclusive, MarksLocked
    <3>2. db'.wm[c] = db.wm[c]
      BY <1>1, <3>1 DEF Mark
    <3> QED BY <2>1, <3>2 DEF Mark
  <2>3. MarksLocked(u)'
    <3>1. at[u] = "apply" => Wal[job[u].item].client \in Clients
      BY ItemType, LogType
    <3> QED BY <2>1, <2>2, <3>1 DEF MarksLocked, HoldsApply
  <2>4. ASSUME NEW c \in Clients
        PROVE  /\ DOMAIN db'.snap[c] = DOMAIN History(t, c)
               /\ DOMAIN History(t, c) = (DOMAIN db.snap[c] \ own[t].rows[c].gone)
                                             \cup DOMAIN own[t].rows[c].put
               /\ DOMAIN History(u, c) = (DOMAIN db.snap[c] \ own[u].rows[c].gone)
                                             \cup DOMAIN own[u].rows[c].put
               /\ Touched(own[u].rows[c]) \cap Touched(own[t].rows[c]) = {}
    BY <1>1, HistoryType DEF LockInv, RowsLocked
  <2>5. ASSUME NEW c \in Clients, NEW l \in DOMAIN own[u].rows[c].put, l < 0
        PROVE  l \in DOMAIN db'.snap[c] \/ HoldsStopgap(u, c)
    BY <2>1, <2>4, <2>5 DEF StopgapsLocked, Touched
  <2>6. ASSUME NEW c \in Clients, HoldsStopgap(u, c), NEW k, k < 0, k \notin DOMAIN History(u, c)
        PROVE  k \notin DOMAIN History(u, c)'
    <3>1. DOMAIN History(u, c)' \subseteq (DOMAIN db'.snap[c] \ own[u].rows[c].gone)
                                             \cup DOMAIN own[u].rows[c].put
      <4>1. DOMAIN Delete(db'.snap[c], own[u].rows[c].gone) = DOMAIN db'.snap[c] \ own[u].rows[c].gone
        BY DEF Delete
      <4> QED BY <2>1, <4>1 DEF History, Overlay
    <3>2. k \in DOMAIN own[t].rows[c].put => k \in DOMAIN db.snap[c]
      BY <2>1, <2>6 DEF StopgapsLocked, LockInv, Exclusive
    <3> QED BY <2>4, <2>6, <3>1, <3>2
  <2>7. StopgapsLocked(u)'
    <3>1. at[u] \in {"allocate", "insert"} => FactRow[job[u].item].client \in Clients
      BY ItemType, LogType
    <3> QED BY <2>1, <2>5, <2>6, <3>1 DEF StopgapsLocked, HoldsStopgap
  <2> QED BY <2>3, <2>7
<1> QED BY <1>3, <1>4, <1>5, <1>6 DEF LockInv

\* A watermark read as missing under the lock is still missing when the load
\* comes to insert it.
LEMMA NoCollision ==
    ASSUME TypeInv, LockInv, NEW t \in Loads
    PROVE  ~ Collision(t)
<1>1. Shape /\ MarksLocked(t)
  BY DEF TypeInv, LockInv
<1>2. SUFFICES ASSUME at[t] = "apply", Collides(t) PROVE FALSE
  BY SMTT(40) DEF Collision
<1> DEFINE c == Wal[job[t].item].client
<1>3. Mark(t, c) = None /\ db.wm[c] # None /\ c \in Clients
  BY <1>1, <1>2, ItemType, LogType DEF MarksLocked, Collides
<1>4. c \in DOMAIN own[t].marks => own[t].marks[c] # None
  <2>1. own[t].marks \in Partial(Clients, Marks \ {None})
    BY <1>1, LoadType DEF Writes
  <2> QED BY <2>1, PartialIs
<1> QED BY <1>3, <1>4 DEF Mark

\* Every step keeps the locks.
LEMMA NextLocks ==
    ASSUME TypeInv, LockInv, [Next]_vars
    PROVE  LockInv'
<1>1. Shape
  BY SMTT(40) DEF TypeInv
<1>2. CASE UNCHANGED vars
  BY <1>2, ZenonT(60) DEF vars, LockInv, Exclusive, RowsLocked, MarksLocked, StopgapsLocked,
              HoldsApply, HoldsStopgap, Mark, History
<1>3. CASE Next
  <2>1. PICK t \in Loads : StepOf(t)
    BY <1>1, <1>3, NextIs
  <2>2. CASE Ends(t) \/ Collision(t) \/ Unresolved(t)
    <3>1. UNCHANGED db /\ \E why \in Failures : Moved(t, why, NoWork, NoWrites, {})
      BY <2>2 DEF Ends, Collision, Unresolved, Failures
    <3> QED BY <3>1, EndLocks
  <2> QED BY <2>1, <2>2, CommitLocks, ReadingLocks, TakingLocks, AllocatingLocks, WritingLocks
          DEF StepOf
<1> QED BY <1>2, <1>3

\* Nobody holds a lock at first.
LEMMA InitLocks ==
    ASSUME Init
    PROVE  LockInv
<1>1. \A t \in Loads : at[t] = "ready" /\ job[t] = NoWork /\ own[t] = NoWrites /\ locks[t] = {}
  BY DEF Init
<1>2. \A c \in Clients : Touched(NoWrites.rows[c]) = {}
  BY NothingType DEF Touched
<1>3. Exclusive /\ RowsLocked
  BY <1>1, <1>2 DEF Exclusive, RowsLocked, HoldsApply, HoldsStopgap
<1>4. \A t \in Loads : MarksLocked(t) /\ StopgapsLocked(t)
  BY <1>1, NothingType DEF MarksLocked, StopgapsLocked
<1> QED BY <1>3, <1>4 DEF LockInv

\* Which steps end how.
LEMMA EndingsOf ==
    ASSUME TypeInv, NEW t \in Loads, StepOf(t), NEW u \in Loads,
           at'[u] \in {"duplicate_watermark", "unresolved"}
    PROVE  at'[u] = at[u] \/ Collision(t) \/ Unresolved(t)
<1>1. Shape
  BY DEF TypeInv
<1>2. SUFFICES ASSUME ~ Collision(t), ~ Unresolved(t)
               PROVE  \E step \in Steps \ {"duplicate_watermark", "unresolved"} :
                         at' = [at EXCEPT ![t] = step]
  BY <1>1 DEF Shape
<1>3. CASE Begin(t)
  BY <1>3 DEF Begin, BeginApply, BeginReload, BeginSeed, BeginFacts, Start, Go, Steps
<1>4. CASE Commit(t)
  BY <1>4 DEF Commit, Steps
<1>5. CASE Ends(t)
  BY <1>5 DEF Ends, Moved, Steps, Failures
<1>6. CASE \E l \in Lsns : LockEvent(t, l)
  BY <1>6 DEF LockEvent, Go, Steps
<1>7. CASE \E c \in Clients : LockForReset(t, c) \/ CheckHistory(t, c)
  BY <1>7, SMTT(40) DEF LockForReset, CheckHistory, ClientDone, Go, Steps
<1>8. CASE RejectStale(t) \/ Applied(t) \/ Reset(t)
  BY <1>8 DEF RejectStale, EventDone, Applied, Reset, Moved, Go, Steps
<1>9. CASE InsertBaseline(t) \/ Repoint(t) \/ Deleted(t) \/ BeginOrphans(t)
  BY <1>9 DEF InsertBaseline, ClientDone, Repoint, Deleted, BeginOrphans, Moved, Go, Steps
<1>10. CASE \E x \in Facts : Resolve(t, x)
  BY <1>10 DEF Resolve, Go, Steps
<1>11. CASE StopgapAllowed(t) \/ AllocateStopgap(t) \/ StopgapInserted(t) \/ Pinned(t)
  BY <1>11 DEF StopgapAllowed, AllocateStopgap, StopgapInserted, Pinned, Moved, Go, Steps
<1> QED BY <1>2, <1>3, <1>4, <1>5, <1>6, <1>7, <1>8, <1>9, <1>10, <1>11 DEF StepOf

\* Every load's cursor, lists and writes, and the tables, have their shape.
THEOREM TypeCorrect == Spec => []TypeOK
<1>1. Init => TypeInv
  BY InitType
<1>2. TypeInv /\ [Next]_vars => TypeInv'
  BY NextType
<1>3. TypeInv => TypeOK
  BY TypeInvTypes
<1> QED BY <1>1, <1>2, <1>3, PTL DEF Spec

\* The locks do what they are taken for.
THEOREM LocksHold == Spec => [](TypeInv /\ LockInv)
<1>1. Init => TypeInv /\ LockInv
  BY InitType, InitLocks
<1>2. TypeInv /\ LockInv /\ [Next]_vars => (TypeInv /\ LockInv)'
  BY NextType, NextLocks
<1> QED BY <1>1, <1>2, PTL DEF Spec

\* No load fails on the INSERT of a watermark.
LEMMA NeverCollides ==
    ASSUME TypeInv, LockInv, WatermarksNeverCollide, [Next]_vars
    PROVE  WatermarksNeverCollide'
<1>1. CASE UNCHANGED vars
  BY <1>1 DEF vars, WatermarksNeverCollide
<1>2. CASE Next
  <2>1. Shape
    BY DEF TypeInv
  <2>2. PICK t \in Loads : StepOf(t)
    BY <1>2, <2>1, NextIs
  <2>3. ~ Collision(t)
    BY NoCollision
  <2>4. ASSUME Unresolved(t), NEW u \in Loads
        PROVE  at'[u] \in {at[u], "unresolved"}
    BY <2>1, <2>4, MovedOnly DEF Unresolved
  <2> QED BY <2>2, <2>3, <2>4, EndingsOf DEF WatermarksNeverCollide
<1> QED BY <1>1, <1>2

\* scd2_apply's advisory lock (sql/03_cdc_apply.sql): two first applies of a
\* client never collide on the INSERT of its watermark.
THEOREM WatermarksTheorem == Spec => []WatermarksNeverCollide
<1> DEFINE Inv == TypeInv /\ LockInv /\ WatermarksNeverCollide
<1>1. Init => Inv
  BY InitType, InitLocks DEF Init, WatermarksNeverCollide
<1>2. Inv /\ [Next]_vars => Inv'
  BY NextType, NextLocks, NeverCollides
<1>3. Inv => WatermarksNeverCollide
  OBVIOUS
<1> HIDE DEF Inv
<1> QED BY <1>1, <1>2, <1>3, PTL DEF Spec
----------------------------------------------------------------------------
(* Stopgaps.  The choice of a stopgap's lsn is a statement after the check  *)
(* for real history, and nothing holds an apply's commit between them off.  *)
(* What does is that the client has no changes.                             *)

\* What a load may have written, and be about to.
KnownWith(step, work, writes) ==
    /\ \A c \in Clients : 0 \notin writes.rows[c].gone
    /\ \A c \in Clients \ Changing : \A l \in DOMAIN writes.rows[c].put : l <= 0
    /\ step = "reset" => \A k \in work.keys : k > 0
    /\ step \in {"repoint", "delete"} => \A k \in work.keys : k < 0
    /\ step \in {"allocate", "insert"} => FactRow[work.item].client \notin Seeded \cup Changing
    /\ step = "insert" => \A k \in work.keys : k < 0

\* A load that may write what it has written keeps the clients as they are known.
LEMMA MovedKnown ==
    ASSUME TypeInv, KnownInv, NEW t \in Loads, NEW step, NEW work, NEW writes, NEW held,
           Moved(t, step, work, writes, held), UNCHANGED db, KnownWith(step, work, writes)
    PROVE  KnownInv'
<1>1. /\ at'[t] = step /\ job'[t] = work /\ own'[t] = writes
      /\ \A u \in Loads \ {t} : at'[u] = at[u] /\ job'[u] = job[u] /\ own'[u] = own[u]
  BY MovedOnly DEF TypeInv
<1>2. StaysKnown(t)'
  BY <1>1 DEF KnownWith, StaysKnown
<1>3. ASSUME NEW u \in Loads \ {t} PROVE StaysKnown(u)'
  <2>1. StaysKnown(u)
    BY DEF KnownInv
  <2> QED BY <1>1, <2>1 DEF StaysKnown
<1>4. KnownClients'
  BY DEF KnownInv, KnownClients
<1> QED BY <1>2, <1>3, <1>4 DEF KnownInv

\* What a load sees of a client.
LEMMA KnownHistory ==
    ASSUME TypeInv, KnownInv, NEW t \in Loads, NEW c \in Clients
    PROVE  /\ 0 \in DOMAIN db.snap[c] => 0 \in DOMAIN History(t, c)
           /\ c \in Seeded => 0 \in DOMAIN History(t, c)
           /\ c \notin Changing => \A l \in DOMAIN History(t, c) : l <= 0
<1>1. /\ DOMAIN History(t, c) = (DOMAIN db.snap[c] \ own[t].rows[c].gone)
                                     \cup DOMAIN own[t].rows[c].put
  BY HistoryType DEF TypeInv
<1> QED BY <1>1 DEF KnownInv, KnownClients, StaysKnown

\* Writing a history down that still has the baseline it had.
LEMMA KnownEdit ==
    ASSUME TypeInv, KnownInv, NEW t \in Loads, NEW c \in Clients, NEW H, IsHistory(H),
           0 \in DOMAIN History(t, c) => 0 \in DOMAIN H,
           c \in Changing \/ \A l \in DOMAIN H : l <= 0,
           NEW writes, writes.rows[c] = Edit(db.snap[c], H),
           \A d \in Clients : d # c => writes.rows[d] = own[t].rows[d],
           NEW step, NEW work, step \in {"next", "repoint", "pin"},
           step = "repoint" => \A k \in work.keys : k < 0
    PROVE  KnownWith(step, work, writes)
<1>1. db.snap[c] \in Histories
  BY HistoryType DEF TypeInv
<1>2. /\ writes.rows[c].gone = DOMAIN db.snap[c] \ DOMAIN H
      /\ DOMAIN writes.rows[c].put \subseteq DOMAIN H
  BY <1>1, EditType
<1>3. StaysKnown(t)
  BY DEF KnownInv
<1>4. 0 \notin writes.rows[c].gone
  BY <1>2, KnownHistory
<1> QED BY <1>2, <1>3, <1>4 DEF StaysKnown, KnownWith

\* One client's history is written, and no other's.
WritesOf(t, writes, c, H) ==
    /\ writes.rows[c] = Edit(db.snap[c], H)
    /\ \A d \in Clients : d # c => writes.rows[d] = own[t].rows[d]

\* What is written with marks, of the rows.
LEMMA MarkedRows ==
    ASSUME Shape, NEW t \in Loads, NEW c \in Clients, NEW H, IsHistory(H),
           NEW marks \in Partial(Clients, Marks \ {None})
    PROVE  WritesOf(t, MarkedAs(t, c, H, marks), c, H)
<1> DEFINE w == Writing(t, c, H)
           m == Overlay(w.marks, marks)
<1>1. w \in Writes /\ MarkedAs(t, c, H, marks) = [w EXCEPT !.marks = m]
  BY WritingIs DEF MarkedAs
<1>2. w.rows[c] = Edit(db.snap[c], H) /\ \A d \in Clients : d # c => w.rows[d] = own[t].rows[d]
  BY WritingIs
<1> HIDE DEF w, m
<1>3. [w EXCEPT !.marks = m].rows = w.rows
  BY <1>1 DEF Writes
<1> QED BY <1>1, <1>2, <1>3 DEF WritesOf

\* A step that writes no row keeps the clients as they are known.
LEMMA KnownSame ==
    ASSUME TypeInv, KnownInv, NEW t \in Loads, NEW step, NEW work, NEW writes, NEW held,
           Moved(t, step, work, writes, held), UNCHANGED db, writes.rows = own[t].rows,
           step \notin {"reset", "repoint", "delete", "allocate", "insert"}
    PROVE  KnownInv'
<1>1. StaysKnown(t)
  BY DEF KnownInv
<1>2. KnownWith(step, work, writes)
  BY <1>1 DEF StaysKnown, KnownWith
<1> QED BY <1>2, MovedKnown

\* Reading, quarantining and pinning leave the clients as they are known.
LEMMA ReadingKnown ==
    ASSUME TypeInv, KnownInv, NEW t \in Loads,
           \/ Begin(t) \/ RejectStale(t) \/ BeginOrphans(t) \/ Pinned(t)
           \/ \E l \in Lsns : LockEvent(t, l)
           \/ \E c \in Clients : CheckHistory(t, c)
           \/ \E x \in Facts : Resolve(t, x)
    PROVE  KnownInv'
<1>1. Shape
  BY DEF TypeInv
<1>2. SUFFICES ASSUME NEW step, NEW work, NEW writes, NEW held,
                      Moved(t, step, work, writes, held), UNCHANGED db,
                      writes.rows = own[t].rows,
                      step \notin {"reset", "repoint", "delete", "allocate", "insert"}
               PROVE  KnownInv'
  <2>1. CASE Begin(t)
    BY <1>1, <1>2, <2>1, StartMoves DEF Begin, BeginApply, BeginReload, BeginSeed, BeginFacts
  <2>2. CASE RejectStale(t)
    <3>1. at[t] = "apply" /\ job[t].item \in Lsns
      BY <1>1, <2>2, RejectMoves, ItemType
    <3>2. Quarantining(t, <<"stale_lsn", job[t].item>>).rows = own[t].rows
      BY <1>1, <3>1, QuarantiningIs DEF Reasons
    <3> QED BY <1>1, <1>2, <2>2, <3>2, RejectMoves
  <2>3. CASE BeginOrphans(t)
    BY <1>1, <1>2, <2>3, OrphansMoves
  <2>4. CASE Pinned(t)
    <3>1. job[t].item \in Facts /\ job[t].keys \subseteq Int
      BY <2>4, ItemType DEF Pinned
    <3>2. PICK l \in job[t].keys :
              Moved(t, "next",
                    [job[t] EXCEPT !.left = @ \ {job[t].item}, !.item = None, !.keys = {}],
                    PinnedAs(t, {job[t].item}, l), locks[t])
      BY <2>4 DEF Pinned
    <3>3. PinnedAs(t, {job[t].item}, l).rows = own[t].rows
      BY <1>1, LoadType DEF PinnedAs, Writes
    <3> QED BY <1>2, <2>4, <3>2, <3>3 DEF Pinned
  <2>5. ASSUME NEW l \in Lsns, LockEvent(t, l) PROVE KnownInv'
    <3>1. Quarantining(t, <<"delete_with_no_baseline", l>>).rows = own[t].rows
      BY <1>1, QuarantiningIs DEF Reasons
    <3> QED BY <1>1, <1>2, <2>5, <3>1, LockEventMoves, ZenonT(60)
  <2>6. ASSUME NEW c \in Clients, CheckHistory(t, c) PROVE KnownInv'
    BY <1>1, <1>2, <2>6, CheckHistoryMoves
  <2>7. ASSUME NEW x \in Facts, Resolve(t, x) PROVE KnownInv'
    BY <1>1, <1>2, <2>7, ResolveMoves
  <2> QED BY <2>1, <2>2, <2>3, <2>4, <2>5, <2>6, <2>7
<1> QED BY <1>2, KnownSame

\* So does a fact load on its way to a stopgap: its client is not known, so it
\* does not change, and nothing is above zero in its history.
LEMMA StopgapKnown ==
    ASSUME FactsOfKnownClients, TypeInv, KnownInv, NEW t \in Loads,
           StopgapAllowed(t) \/ AllocateStopgap(t) \/ StopgapInserted(t)
    PROVE  KnownInv'
<1> DEFINE i == job[t].item
           c == FactRow[i].client
           H == HistoryOfItem(t)
<1>1. Shape /\ StaysKnown(t)
  BY DEF TypeInv, KnownInv
<1>2. i \in Facts /\ c \in Clients
  BY <1>1, AllocateMoves, ItemType, LogType DEF StopgapAllowed, StopgapInserted
<1>3. H = History(t, c) /\ DOMAIN H \subseteq Int
  BY <1>1, <1>2, HistoryType DEF HistoryOfItem, IsHistory
<1>4. CASE StopgapAllowed(t)
  <2>1. c \notin Seeded
    BY <1>2, <1>3, <1>4, KnownHistory DEF StopgapAllowed
  <2>2. c \notin Changing
    BY <1>2, <2>1 DEF FactsOfKnownClients
  <2>3. KnownWith("allocate", job[t], own[t])
    BY <1>1, <2>1, <2>2 DEF KnownWith, StaysKnown
  <2> QED BY <1>4, <2>3, MovedKnown DEF StopgapAllowed
<1>5. CASE AllocateStopgap(t)
  <2> DEFINE work == [job[t] EXCEPT !.keys = StopgapLsns(H)]
  <2>1. at[t] = "allocate" /\ UNCHANGED db /\ Moved(t, "insert", work, own[t], locks[t])
    BY <1>1, <1>5, AllocateMoves
  <2>2. work.item = i /\ work.keys = StopgapLsns(H)
    BY ItemType
  <2>3. c \notin Seeded \cup Changing
    BY <1>1, <2>1 DEF StaysKnown
  <2>4. \A k \in StopgapLsns(H) : k < 0
    BY <1>2, <1>3, <2>3, KnownHistory, StopgapLsnsAreNew
  <2> HIDE DEF work, H
  <2>5. KnownWith("insert", work, own[t])
    BY <1>1, <2>2, <2>3, <2>4 DEF KnownWith, StaysKnown
  <2> QED BY <2>1, <2>5, MovedKnown
<1>6. CASE StopgapInserted(t)
  <2>1. at[t] = "insert" /\ UNCHANGED db
    BY <1>6 DEF StopgapInserted
  <2>2. PICK lsn \in job[t].keys : \E l : Moved(t, "pin", [job[t] EXCEPT !.keys = {l}],
                    Writing(t, c, WithStopgap(t, lsn)), locks[t])
    BY <1>6 DEF StopgapInserted
  <2>3. PICK l : Moved(t, "pin", [job[t] EXCEPT !.keys = {l}],
                    Writing(t, c, WithStopgap(t, lsn)), locks[t])
    BY <2>2
  <2>4. lsn \in Int /\ lsn < 0 /\ c \notin Changing
    BY <1>1, <2>1, ItemType DEF StaysKnown
  <2> DEFINE G == WithStopgap(t, lsn)
             writes == Writing(t, c, G)
             step == "pin"
             work == [job[t] EXCEPT !.keys = {l}]
  <2>5. IsHistory(G) /\ DOMAIN G = DOMAIN H \cup {lsn}
    BY <1>1, <1>2, <2>4, WithStopgapType
  <2> HIDE DEF G
  <2>6. /\ writes.rows[c] = Edit(db.snap[c], G)
        /\ \A d \in Clients : d # c => writes.rows[d] = own[t].rows[d]
    BY <1>1, <1>2, <2>5, WritingIs
  <2>7. /\ 0 \in DOMAIN History(t, c) => 0 \in DOMAIN G
        /\ \A k \in DOMAIN G : k <= 0
    BY <1>2, <1>3, <2>4, <2>5, KnownHistory
  <2>8. Moved(t, step, work, writes, locks[t])
    BY <2>3 DEF G
  <2> HIDE DEF writes, work, c, H
  <2>9. KnownWith(step, work, writes)
    BY <1>2, <2>5, <2>6, <2>7, KnownEdit
  <2> QED BY <2>1, <2>8, <2>9, MovedKnown
<1> QED BY <1>4, <1>5, <1>6

\* Steps of applies, reloads and seeds: what they write keeps a baseline.
LEMMA WritingKnown ==
    ASSUME TypeInv, KnownInv, NEW t \in Loads,
           \/ Applied(t) \/ Reset(t) \/ InsertBaseline(t) \/ Deleted(t) \/ Repoint(t)
           \/ \E c \in Clients : LockForReset(t, c)
    PROVE  KnownInv'
<1> DEFINE j == job[t]
           i == j.item
<1>1. Shape /\ StaysKnown(t)
  BY DEF TypeInv, KnownInv
<1>2. j = [events |-> j.events, pending |-> j.pending, left |-> j.left,
           orphans |-> j.orphans, item |-> j.item, seen |-> j.seen, keys |-> j.keys]
  BY ItemType
<1>3. SUFFICES ASSUME NEW c \in Clients, NEW H, IsHistory(H),
                      0 \in DOMAIN History(t, c) => 0 \in DOMAIN H,
                      c \in Changing \/ \A l \in DOMAIN H : l <= 0,
                      NEW writes, writes.rows[c] = Edit(db.snap[c], H),
                      \A d \in Clients : d # c => writes.rows[d] = own[t].rows[d],
                      NEW step, NEW work, step \in {"next", "repoint", "pin"},
                      step = "repoint" => \A k \in work.keys : k < 0,
                      Moved(t, step, work, writes, locks[t]), UNCHANGED db
               PROVE  KnownInv'
  <2>1. CASE Applied(t)
    <3> DEFINE c == Wal[i].client
               H == Appended(t)
               mark == [d \in {c} |-> i]
               writes == MarkedAs(t, c, H, mark)
               step == "next"
               work == After(t)
    <3>1. at[t] = "apply" /\ UNCHANGED db /\ Moved(t, step, work, writes, locks[t])
      BY <2>1 DEF Applied
    <3>2. i \in Lsns /\ c \in Clients /\ c \in Changing /\ i \in Int /\ i > 0
      <4>1. i \in Lsns
        BY <3>1, ItemType
      <4> QED BY <4>1, LogType DEF Changing
    <3>3. IsHistory(H)
      BY <1>1, <3>2, AppendedType
    <3>4. 0 \in DOMAIN History(t, c) => 0 \in DOMAIN H
      <4>1. \A l \in Int : Differs(History(t, c), H, l) =>
                l \in {i} \cup Current(History(t, c))
        BY <1>1, <3>2, AppendedDiffers
      <4>2. DOMAIN History(t, c) \subseteq DOMAIN H
        <5> DEFINE G == History(t, c)
                   ended == EndDateCurrent(G, Wal[i].commit_ts)
        <5>1. DOMAIN ended = DOMAIN G
          BY SMTT(40) DEF EndDateCurrent
        <5>2. H = ended \/ \E row : H = Insert(ended, i, row)
          BY DEF Appended, ApplyDelete, ApplyUpsert
        <5> HIDE DEF ended, G, H
        <5>3. \A row : DOMAIN Insert(ended, i, row) = DOMAIN ended \cup {i}
          BY DEF Insert
        <5> QED BY <5>1, <5>2, <5>3 DEF G
      <4> QED BY <4>2
    <3>5. mark \in Partial(Clients, Marks \ {None})
      <4>1. DOMAIN mark = {c} /\ mark[c] = i /\ mark = [d \in DOMAIN mark |-> mark[d]]
        OBVIOUS
      <4>2. i \in Marks \ {None}
        BY <3>2 DEF Marks, None
      <4> HIDE DEF mark
      <4> QED BY <3>2, <4>1, <4>2, PartialIs
    <3> HIDE DEF H, mark
    <3>6. /\ writes.rows[c] = Edit(db.snap[c], H)
          /\ \A d \in Clients : d # c => writes.rows[d] = own[t].rows[d]
      BY <1>1, <3>2, <3>3, <3>5, MarkedIs, SMTT(40)
    <3> HIDE DEF c, writes, work, i, j
    <3> QED BY <1>3, <3>1, <3>2, <3>3, <3>4, <3>6
  <2>2. CASE Reset(t)
    <3> DEFINE H == Remaining(t)
               mark == RolledBack(t)
               events == {l \in Lsns : Wal[l].client = i /\ l >= ReloadFrom[i]}
               work == [j EXCEPT !.pending = @ \ {i}, !.item = None, !.keys = {}, !.events = events]
               writes == MarkedAs(t, i, H, mark)
               step == "next"
    <3>1. /\ at[t] = "reset" /\ UNCHANGED db /\ Moved(t, step, work, writes, locks[t])
      BY <1>1, <2>2, ResetMoves
    <3>2. i \in DOMAIN ReloadFrom /\ \A k \in j.keys : k > 0
      BY <1>1, <3>1, ItemType DEF StaysKnown
    <3>3. i \in Clients /\ i \in Changing
      BY <3>2, LogType DEF Changing
    <3>4. /\ IsHistory(H) /\ mark \in Partial(Clients, Marks \ {None})
          /\ DOMAIN H = DOMAIN History(t, i) \ {l \in j.keys : l >= ReloadFrom[i]}
      BY <1>1, <3>2, RemainingType
    <3>5. 0 \in DOMAIN History(t, i) => 0 \in DOMAIN H
      BY <3>2, <3>4
    <3> HIDE DEF H, mark, i
    <3>6. /\ writes.rows[i] = Edit(db.snap[i], H)
          /\ \A d \in Clients : d # i => writes.rows[d] = own[t].rows[d]
      <4>1. i \in Clients /\ IsHistory(H) /\ mark \in Partial(Clients, Marks \ {None})
        BY <3>3, <3>4
      <4> HIDE DEF writes
      <4>2. WritesOf(t, writes, i, H)
        BY <1>1, <4>1, MarkedRows DEF writes
      <4> QED BY <4>2 DEF WritesOf
    <3> HIDE DEF writes, work, j
    <3> QED BY <1>3, <3>1, <3>3, <3>4, <3>5, <3>6
  <2>3. CASE InsertBaseline(t)
    <3> DEFINE H == WithBaseline(t)
               writes == Writing(t, i, H)
               stopgaps == Stopgaps(History(t, i))
               passed == Passed(t, i)
               work == [j EXCEPT !.keys = stopgaps]
    <3>1. /\ at[t] = "baseline" /\ UNCHANGED db
          /\ \/ Moved(t, "next", passed, writes, locks[t])
             \/ Moved(t, "repoint", work, writes, locks[t])
      BY <1>1, <2>3, BaselineMoves
    <3>2. i \in Clients
      BY <3>1, ItemType
    <3>3. /\ IsHistory(H) /\ DOMAIN H = DOMAIN History(t, i) \cup {0}
      BY <1>1, <3>2, WithBaselineType
    <3> HIDE DEF H
    <3>4. /\ writes.rows[i] = Edit(db.snap[i], H)
          /\ \A d \in Clients : d # i => writes.rows[d] = own[t].rows[d]
      BY <1>1, <3>2, <3>3, WritingIs
    <3>5. i \in Changing \/ \A l \in DOMAIN H : l <= 0
      BY <3>2, <3>3, KnownHistory
    <3>6. work.keys = stopgaps /\ \A k \in stopgaps : k < 0
      BY <1>2 DEF Stopgaps
    <3> HIDE DEF writes, work, passed, i, j
    <3> QED BY <1>3, <3>1, <3>2, <3>3, <3>4, <3>5, <3>6
  <2>4. CASE Deleted(t)
    <3> DEFINE H == Delete(History(t, i), j.keys)
               writes == Writing(t, i, H)
               work == Passed(t, i)
               step == "next"
    <3>1. at[t] = "delete" /\ UNCHANGED db /\ Moved(t, step, work, writes, locks[t])
      BY <2>4 DEF Deleted
    <3>2. i \in Clients /\ \A k \in j.keys : k < 0
      BY <1>1, <3>1, ItemType DEF StaysKnown
    <3>3. IsHistory(H) /\ DOMAIN H = DOMAIN History(t, i) \ j.keys
      <4> DEFINE keys == j.keys
      <4> HIDE DEF keys, i
      <4>1. /\ IsHistory(Delete(History(t, i), keys))
            /\ DOMAIN Delete(History(t, i), keys) = DOMAIN History(t, i) \ keys
        BY ONLY <1>1, <3>2, DeletedType, t \in Loads
      <4> QED BY <4>1 DEF keys
    <3> HIDE DEF H
    <3>4. /\ writes.rows[i] = Edit(db.snap[i], H)
          /\ \A d \in Clients : d # i => writes.rows[d] = own[t].rows[d]
      BY <1>1, <3>2, <3>3, WritingIs
    <3>5. /\ 0 \in DOMAIN History(t, i) => 0 \in DOMAIN H
          /\ i \in Changing \/ \A l \in DOMAIN H : l <= 0
      BY <3>2, <3>3, KnownHistory
    <3> HIDE DEF writes, work, i, j
    <3> QED BY <1>3, <3>1, <3>2, <3>3, <3>4, <3>5
  <2>5. CASE Repoint(t)
    <3> DEFINE X == PinnedTo(t, i, j.keys)
               zero == 0
               writes == PinnedAs(t, X, zero)
    <3>1. at[t] = "repoint" /\ UNCHANGED db /\ Moved(t, "delete", j, writes, locks[t])
      BY <1>1, <2>5, RepointMoves
    <3>2. writes.rows = own[t].rows
      <4>1. X \in SUBSET Facts /\ zero \in Int
        BY <1>1, PinnedToType
      <4> HIDE DEF X, zero
      <4> QED BY <1>1, <4>1, PinningType
    <3> HIDE DEF writes
    <3>3. KnownWith("delete", j, writes)
      BY <1>1, <3>1, <3>2 DEF KnownWith, StaysKnown
    <3> QED BY <3>1, <3>3, MovedKnown
  <2>6. ASSUME NEW c \in Clients, LockForReset(t, c) PROVE KnownInv'
    <3> DEFINE keys == {l \in DOMAIN History(t, c) : l >= ReloadFrom[c]}
               work == [j EXCEPT !.item = c, !.keys = keys]
               held == locks[t] \cup ReloadLock(c)
    <3>1. /\ c \in FirstClient(t) /\ Kind[t] = "reload" /\ UNCHANGED db
          /\ Moved(t, "reset", work, own[t], held)
      BY <1>1, <2>6, LockForResetMoves
    <3>2. \A k \in keys : k > 0
      <4>1. c \in DOMAIN ReloadFrom
        BY <3>1 DEF FirstClient, TypeInv, InOrder
      <4>2. ReloadFrom[c] \in Nat /\ ReloadFrom[c] > 0
        BY <4>1, LogType
      <4>3. DOMAIN History(t, c) \subseteq Int
        BY <1>1, HistoryType DEF IsHistory
      <4> QED BY <4>2, <4>3
    <3>3. work.keys = keys
      BY <1>2
    <3> HIDE DEF work, keys, held
    <3>4. KnownWith("reset", work, own[t])
      BY <1>1, <3>2, <3>3 DEF KnownWith, StaysKnown
    <3> QED BY <3>1, <3>4, MovedKnown
  <2> QED BY <2>1, <2>2, <2>3, <2>4, <2>5, <2>6
<1>4. KnownWith(step, work, writes)
  BY <1>3, KnownEdit
<1> QED BY <1>3, <1>4, MovedKnown

\* A commit makes what was seen the committed histories.
LEMMA CommitKnown ==
    ASSUME TypeInv, KnownInv, NEW t \in Loads, Commit(t)
    PROVE  KnownInv'
<1>1. Shape /\ MovedAside(t) /\ db'.snap = [c \in Clients |-> History(t, c)]
  BY CommitMoves DEF TypeInv
<1>2. KnownClients'
  <2>1. \A c \in Seeded : c \in Clients
    BY LoadsAssumption
  <2> QED BY <1>1, <2>1, KnownHistory DEF KnownClients
<1>3. StaysKnown(t)'
  BY <1>1, NothingType DEF MovedAside, StaysKnown
<1>4. ASSUME NEW u \in Loads \ {t} PROVE StaysKnown(u)'
  <2>1. /\ StaysKnown(u) /\ at'[u] = at[u] /\ own'[u] = own[u]
        /\ job'[u].item = job[u].item /\ job'[u].keys \subseteq job[u].keys
    BY <1>1 DEF KnownInv, MovedAside, SameWork
  <2> QED BY <2>1 DEF StaysKnown
<1> QED BY <1>2, <1>3, <1>4 DEF KnownInv

\* Every step keeps the clients as they are known.
LEMMA NextKnown ==
    ASSUME FactsOfKnownClients, TypeInv, KnownInv, [Next]_vars
    PROVE  KnownInv'
<1>1. Shape
  BY DEF TypeInv
<1>2. CASE UNCHANGED vars
  BY <1>2 DEF vars, KnownInv, KnownClients, StaysKnown
<1>3. CASE Next
  <2>1. PICK t \in Loads : StepOf(t)
    BY <1>1, <1>3, NextIs
  <2>2. CASE Ends(t) \/ Collision(t) \/ Unresolved(t)
    <3>1. PICK why \in Failures : UNCHANGED db /\ Moved(t, why, NoWork, NoWrites, {})
      BY <2>2 DEF Ends, Collision, Unresolved, Failures
    <3>2. KnownWith(why, NoWork, NoWrites)
      BY NothingType DEF KnownWith, Failures
    <3> QED BY <3>1, <3>2, MovedKnown
  <2> QED BY <2>1, <2>2, CommitKnown, ReadingKnown, StopgapKnown, WritingKnown DEF StepOf
<1> QED BY <1>2, <1>3

\* The baselines committed at first are all there is.
LEMMA InitKnown ==
    ASSUME Init
    PROVE  KnownInv
<1>1. \A t \in Loads : at[t] = "ready" /\ job[t] = NoWork /\ own[t] = NoWrites
  BY DEF Init
<1>2. \A t \in Loads : StaysKnown(t)
  BY <1>1, NothingType DEF StaysKnown
<1>3. ASSUME NEW c \in Clients
      PROVE  DOMAIN db.snap[c] = IF c \in Seeded THEN {0} ELSE {}
  BY DEF Init, Insert, NoHistory
<1>4. \A c \in Seeded : c \in Clients
  BY LoadsAssumption
<1> QED BY <1>2, <1>3, <1>4 DEF KnownInv, KnownClients

\* A stopgap inserted below zero, where there was none under the lock, covers
\* its fact.
LEMMA NeverUnresolved ==
    ASSUME TypeInv, LockInv, KnownInv, NEW t \in Loads
    PROVE  ~ Unresolved(t)
<1>1. Shape /\ StopgapsLocked(t) /\ StaysKnown(t)
  BY DEF TypeInv, LockInv, KnownInv
<1>2. SUFFICES ASSUME at[t] = "insert", NEW lsn \in job[t].keys,
                      Covering(WithStopgap(t, lsn), FactRow[job[t].item].event_ts) = {}
               PROVE  FALSE
  BY DEF Unresolved
<1> DEFINE ts == FactRow[job[t].item].event_ts
           H == WithStopgap(t, lsn)
<1>3. job[t].item \in Facts /\ lsn \in Int /\ ts \in Int
  <2>1. job[t].item \in Facts /\ lsn \in Int
    BY <1>2, ItemType
  <2> QED BY <2>1, LogType
<1>4. lsn \notin DOMAIN HistoryOfItem(t)
  BY <1>1, <1>2 DEF StopgapsLocked, StaysKnown, HistoryOfItem
<1>5. lsn \in DOMAIN H /\ H[lsn] = StopgapRow(ts)
  BY <1>1, <1>3, <1>4, WithStopgapType, ZenonT(60)
<1>6. StopgapRow(ts).valid_from = ts /\ StopgapRow(ts).valid_to = ts + 1
  BY DEF StopgapRow, Row
<1>7. lsn \in Covering(H, ts)
  BY <1>3, <1>5, <1>6 DEF Covering
<1> QED BY <1>2, <1>7

\* So no fact load fails on a stopgap.
LEMMA NeverSwallowed ==
    ASSUME TypeInv, LockInv, KnownInv, StopgapsNeverSwallowed, [Next]_vars
    PROVE  StopgapsNeverSwallowed'
<1>1. CASE UNCHANGED vars
  BY <1>1 DEF vars, StopgapsNeverSwallowed
<1>2. CASE Next
  <2>1. Shape
    BY DEF TypeInv
  <2>2. PICK t \in Loads : StepOf(t)
    BY <1>2, <2>1, NextIs
  <2>3. ~ Unresolved(t) /\ ~ Collision(t)
    BY NeverUnresolved, NoCollision
  <2> QED BY <2>2, <2>3, EndingsOf DEF StopgapsNeverSwallowed
<1> QED BY <1>1, <1>2

\* The stopgap lock of _resolve_risk_snapshot_key, of clients that either have
\* their baseline or do not change: no fact load has its stopgap swallowed by
\* another that inserts one of the same lsn.  Of others the lsn chosen may be
\* above zero, one that an apply or a reload writes without that lock: run
\* stopgap_race shows it chosen.
THEOREM StopgapsTheorem ==
    ASSUME FactsOfKnownClients
    PROVE  Spec => []StopgapsNeverSwallowed
<1> DEFINE Inv == TypeInv /\ LockInv /\ KnownInv /\ StopgapsNeverSwallowed
<1>1. Init => Inv
  BY InitType, InitLocks, InitKnown DEF Init, StopgapsNeverSwallowed
<1>2. Inv /\ [Next]_vars => Inv'
  BY NextType, NextLocks, NextKnown, NeverSwallowed
<1>3. Inv => StopgapsNeverSwallowed
  OBVIOUS
<1> HIDE DEF Inv
<1> QED BY <1>1, <1>2, <1>3, PTL DEF Spec
----------------------------------------------------------------------------
(* Histories.                                                               *)

\* A load that has written nothing of a client reads what is committed.
LEMMA ReadNothing ==
    ASSUME NEW base \in Histories, NEW edit \in Edits, Touched(edit) = {}
    PROVE  Read(base, edit) = base
<1> DEFINE R == Read(base, edit)
<1>1. /\ IsHistory(R) /\ DOMAIN R = (DOMAIN base \ edit.gone) \cup DOMAIN edit.put
      /\ \A l \in DOMAIN R : R[l] = IF l \in DOMAIN edit.put THEN edit.put[l] ELSE base[l]
  BY ReadType
<1>2. DOMAIN R = DOMAIN base /\ \A l \in DOMAIN base : R[l] = base[l]
  BY <1>1 DEF Touched
<1>3. IsHistory(base)
  BY HistoryIs
<1> HIDE DEF R
<1>4. R = [l \in DOMAIN R |-> R[l]] /\ base = [l \in DOMAIN base |-> base[l]]
  BY <1>1, <1>3 DEF IsHistory
<1>5. [l \in DOMAIN R |-> R[l]] = [l \in DOMAIN base |-> base[l]]
  BY <1>2
<1> QED BY <1>4, <1>5 DEF R

\* The next change on top of a sound history makes a sound one.
LEMMA SoundAppended ==
    ASSUME NEW c, NEW H, IsHistory(H), NEW mark \in Int, SoundHistory(c, H, mark),
           NEW l \in LsnsOf(c), mark < l,
           NEW ts \in Int, NEW attrs, NEW G,
           \/ G = ApplyUpsert(H, l, ts, attrs) /\ Wal[l].op # "delete"
           \/ G = ApplyDelete(H, l, ts) /\ DOMAIN H # {}
    PROVE  SoundHistory(c, G, l) /\ DOMAIN G = DOMAIN H \cup {l}
<1>1. /\ l \in Lsns /\ l \in Int /\ l > 0 /\ DOMAIN H \subseteq Int /\ Lsns \subseteq Int
      /\ Tiled(H) /\ (\A m \in DOMAIN H : m >= 0) /\ (0 \in DOMAIN H <=> c \in Seeded)
      /\ \A m \in DOMAIN H : m > 0 => m \in LsnsOf(c) /\ m <= mark
      /\ \A m \in DOMAIN H : m > 0 /\ Wal[m].op = "delete" => \E k \in DOMAIN H : k < m
  BY LogType DEF SoundHistory, IsHistory, LsnsOf
<1>2. \A m \in DOMAIN H : m < l
  BY <1>1
<1>3. Tiled(G)
  BY <1>1, <1>2, ApplyUpsertTiled, ApplyDeleteTiled
<1>4. \E deleted \in BOOLEAN : \E row :
          G = Insert(EndDateCurrent(H, ts), l, Row(ts, Forever, TRUE, deleted, row))
  <2>1. CASE G = ApplyUpsert(H, l, ts, attrs)
    BY <2>1 DEF ApplyUpsert
  <2>2. CASE G = ApplyDelete(H, l, ts) /\ DOMAIN H # {}
    <3> DEFINE copied == {H[k].attrs : k \in Newest(H)}
    <3>1. copied # {}
      <4>1. PICK m \in DOMAIN H : Newest(H) = {m}
        BY <1>1, <1>2, <2>2, NewestExists
      <4> QED BY <4>1
    <3> QED BY <2>2, <3>1 DEF ApplyDelete
  <2> QED BY <2>1, <2>2
<1>5. PICK deleted \in BOOLEAN : \E row :
          G = Insert(EndDateCurrent(H, ts), l, Row(ts, Forever, TRUE, deleted, row))
  BY <1>4
<1>6. /\ DOMAIN G = DOMAIN H \cup {l} /\ G[l].is_current
  <2>1. l \notin DOMAIN H
    BY <1>1, <1>2
  <2>2. PICK row : G = Insert(EndDateCurrent(H, ts), l, Row(ts, Forever, TRUE, deleted, row))
    BY <1>5
  <2> QED BY <2>1, <2>2 DEF Insert, EndDateCurrent, Row
<1>7. \A m \in Newest(G) : G[m].is_current
  <2>1. Newest(G) = {l}
    BY <1>1, <1>2, <1>6 DEF Newest
  <2> QED BY <1>6, <2>1
<1>8. \A m \in DOMAIN G : m > 0 => m \in LsnsOf(c) /\ m <= l
  BY <1>1, <1>6
<1>9. ASSUME NEW m \in DOMAIN G, m > 0, Wal[m].op = "delete" PROVE \E k \in DOMAIN G : k < m
  <2>1. CASE m = l
    <3>1. Wal[l].op = "delete" => DOMAIN H # {}
      OBVIOUS
    <3> QED BY <1>2, <1>6, <1>9, <2>1, <3>1
  <2>2. CASE m # l
    BY <1>1, <1>6, <1>9, <2>2
  <2> QED BY <2>1, <2>2
<1>10. (\A m \in DOMAIN G : m >= 0) /\ (0 \in DOMAIN G <=> c \in Seeded)
  BY <1>1, <1>6
<1> QED BY <1>3, <1>6, <1>7, <1>8, <1>9, <1>10 DEF SoundHistory

\* A reset leaves the rows below it, the newest of them open.
LEMMA SoundReset ==
    ASSUME NEW c, NEW H, IsHistory(H), NEW mark \in Int, SoundHistory(c, H, mark),
           NEW from \in Int, from > 0, NEW left \in Int, left = from - 1 \/ mark <= left
    PROVE  SoundHistory(c, ResetFrom(H, from), left) /\ DOMAIN ResetFrom(H, from) = Below(H, from)
<1> DEFINE R == ResetFrom(H, from)
<1>1. /\ DOMAIN H \subseteq Int
      /\ Tiled(H) /\ (\A m \in DOMAIN H : m >= 0) /\ (0 \in DOMAIN H <=> c \in Seeded)
      /\ \A m \in DOMAIN H : m > 0 => m \in LsnsOf(c) /\ m <= mark
      /\ \A m \in DOMAIN H : m > 0 /\ Wal[m].op = "delete" => \E k \in DOMAIN H : k < m
  BY DEF SoundHistory, IsHistory
<1>2. Tiled(R) /\ DOMAIN R = Below(H, from)
  BY <1>1, ResetFromTiled
<1>3. /\ \A m \in DOMAIN R : m >= 0 /\ (m > 0 => m \in LsnsOf(c) /\ m <= left)
      /\ \A m \in DOMAIN R : m > 0 /\ Wal[m].op = "delete" => \E k \in DOMAIN R : k < m
  BY <1>1, <1>2 DEF Below
<1>4. 0 \in DOMAIN R <=> c \in Seeded
  BY <1>1, <1>2 DEF Below
<1>5. \A m \in Newest(R) : R[m].is_current
  <2>1. SUFFICES ASSUME NEW m \in Newest(R) PROVE R[m].is_current
    OBVIOUS
  <2>2. m \in Below(H, from) /\ \A k \in Below(H, from) : k <= m
    BY <1>2, <2>1 DEF Newest
  <2>3. H[m] \in Version
    BY <2>2 DEF Below, IsHistory
  <2> QED BY <2>2, <2>3 DEF ResetFrom, Version
<1> HIDE DEF R
<1> QED BY <1>2, <1>3, <1>4, <1>5 DEF SoundHistory, R

\* A load without the apply lock of a client that changes sees what is
\* committed of it.
LEMMA Unlocked ==
    ASSUME Shape, NEW t \in Loads, MarksLocked(t), ViewSound(t), NEW c \in Changing,
           ~ HoldsApply(t, c)
    PROVE  History(t, c) = db.snap[c] /\ Mark(t, c) = db.wm[c]
<1>1. c \in Clients
  BY LogType DEF Changing
<1> DEFINE base == db.snap[c]
           edit == own[t].rows[c]
<1>2. /\ base \in Histories /\ edit \in Edits /\ History(t, c) = Read(base, edit)
      /\ Touched(edit) = {}
  BY <1>1, HistoryType DEF ViewSound
<1>3. History(t, c) = base
  <2> HIDE DEF base, edit
  <2> QED BY <1>2, ReadNothing
<1>4. c \notin DOMAIN own[t].marks
  BY DEF MarksLocked
<1> QED BY <1>3, <1>4 DEF Mark

\* The next change of a load's list, and how it comes to be next.
LEMMA NextEvent ==
    ASSUME TypeInv, NEW t \in Loads, at[t] \in {"next", "apply"}, NEW l \in FirstEvent(t)
    PROVE  /\ l \in Lsns /\ l \in Int /\ l > 0 /\ l \in job[t].events /\ job[t].events \subseteq Lsns
           /\ l \in LsnsOf(Wal[l].client) /\ Wal[l].client \in Changing
           /\ Wal[l].client \in Clients /\ Kind[t] \in {"apply", "reload"} /\ Running(t)
           /\ Kind[t] = "apply" => \A m \in job[t].events : Line[l] <= Line[m]
           /\ Kind[t] = "reload" => \A m \in job[t].events : l <= m
<1>1. /\ Shape /\ job[t].events \subseteq Lsns /\ l \in job[t].events /\ Running(t)
      /\ Kind[t] \in {"apply", "reload"}
      /\ Kind[t] = "apply" => \A m \in job[t].events : Line[l] <= Line[m]
      /\ Kind[t] = "reload" => \A m \in job[t].events : l <= m
  BY ItemType DEF TypeInv, FirstEvent, InOrder, Running, Failures
<1>2. /\ l \in Lsns /\ Wal[l].client \in Changing /\ Wal[l].client \in Clients
      /\ l \in Int /\ l > 0 /\ l \in LsnsOf(Wal[l].client)
  BY <1>1, LogType DEF Changing, LsnsOf
<1> QED BY <1>1, <1>2

\* What is excused stays so, since the reloads that committed have.
LEMMA StaysExcused ==
    ASSUME Shape, NEW t \in Loads, NEW step, NEW work, NEW writes, NEW held,
           Moved(t, step, work, writes, held), at[t] # "committed"
    PROVE  \A q, l : Excused(q, l) => Excused(q, l)'
<1>1. \A u \in Loads : at[u] = "committed" => at'[u] = "committed"
  BY MovedOnly
<1>2. \A l : NotReplayed(l) => NotReplayed(l)'
  BY <1>1 DEF NotReplayed
<1> QED BY <1>2 DEF Excused, Overtaken, Quarantined, LsnsOf

\* A step that commits nothing keeps the invariant if it keeps what it says of
\* the load that takes it.
LEMMA MovedHistory ==
    ASSUME TypeInv, HistoryInv, NEW t \in Loads, NEW step, NEW work, NEW writes, NEW held,
           Moved(t, step, work, writes, held), UNCHANGED db, at[t] # "committed",
           ViewSound(t)', WorkSound(t)'
    PROVE  HistoryInv'
<1>1. Shape
  BY DEF TypeInv
<1>e. \A q, l : Excused(q, l) => Excused(q, l)'
  BY <1>1, StaysExcused
<1>2. CommittedSound'
  BY <1>e DEF HistoryInv, CommittedSound
<1>3. ASSUME NEW u \in Loads \ {t} PROVE ViewSound(u)' /\ WorkSound(u)'
  <2>1. /\ at'[u] = at[u] /\ job'[u] = job[u] /\ own'[u] = own[u] /\ locks'[u] = locks[u]
        /\ \A c : History(u, c)' = History(u, c) /\ Mark(u, c)' = Mark(u, c)
    BY <1>1, OthersSee
  <2>2. /\ FirstEvent(u)' = FirstEvent(u) /\ Running(u)' = Running(u)
        /\ ResetBy(u)' = ResetBy(u)
    BY <2>1 DEF FirstEvent, Running, ResetBy, ResetAt
  <2>3. ViewSound(u) /\ WorkSound(u)
    BY DEF HistoryInv
  <2>4. ViewSound(u)'
    <3>1. \A c : MarkFits(u, c, job[u], own[u]) => MarkFits(u, c, job[u], own[u])'
      BY <2>1 DEF MarkFits, Read
    <3>2. \A l : ChangeFits(u, l, at[u], job[u], own[u]) => ChangeFits(u, l, at[u], job[u], own[u])'
      BY <1>e, <2>1 DEF ChangeFits, Read, MarkIn, ResetAt
    <3> QED BY <2>1, <2>3, <3>1, <3>2 DEF ViewSound, HoldsApply
  <2>5. WorkSound(u)'
    BY <2>1, <2>2, <2>3 DEF WorkSound
  <2> QED BY <2>4, <2>5
<1> QED BY <1>2, <1>3 DEF HistoryInv

\* A load that has ended sees what is committed, and has nothing left to do.
LEMMA EndHistory ==
    ASSUME TypeInv, HistoryInv, NEW t \in Loads, NEW why \in Failures,
           Moved(t, why, NoWork, NoWrites, {}), UNCHANGED db, at[t] # "committed"
    PROVE  HistoryInv'
<1>1. Shape /\ CommittedSound
  BY DEF TypeInv, HistoryInv
<1>2. at'[t] = why /\ job'[t] = NoWork /\ own'[t] = NoWrites /\ locks'[t] = {}
  BY <1>1, MovedOnly
<1>e. \A q, l : Excused(q, l) => Excused(q, l)'
  BY <1>1, StaysExcused
<1>3. ASSUME NEW c \in Clients
      PROVE  History(t, c)' = db.snap[c] /\ Mark(t, c)' = db.wm[c] /\ Touched(NoWrites.rows[c]) = {}
  <2> DEFINE base == db.snap[c]
             edit == NoWrites.rows[c]
  <2>1. base \in Histories /\ edit \in Edits /\ Touched(edit) = {}
    BY <1>1, LoadType, NothingType DEF Tables, Writes, Touched
  <2>2. Read(base, edit) = base
    <3> HIDE DEF base, edit
    <3> QED BY <2>1, ReadNothing
  <2>3. History(t, c)' = Read(base, edit)
    BY <1>2 DEF History, Read
  <2>4. Mark(t, c)' = db.wm[c]
    BY <1>2, NothingType DEF Mark
  <2> QED BY <2>1, <2>2, <2>3, <2>4
<1>4. ViewSound(t)'
  <2>1. /\ NoWrites.rejected = {} /\ DOMAIN NoWrites.marks = {}
        /\ \A c \in Clients : DOMAIN NoWrites.rows[c].put = {}
    BY NothingType
  <2>2. ASSUME NEW l \in Lsns PROVE ChangeFits(t, l, at[t], job[t], own[t])'
    <3> DEFINE c == Wal[l].client
    <3>1. c \in Clients
      BY LogType
    <3>2. History(t, c)' = Read(db.snap[c], own[t].rows[c])' /\ Mark(t, c)' = MarkIn(own[t], c)'
      BY DEF History, Read, Mark, MarkIn
    <3>3. Read(db.snap[c], own[t].rows[c])' = db.snap[c] /\ MarkIn(own[t], c)' = db.wm[c]
      BY <1>3, <3>1, <3>2
    <3>4. l <= db.wm[c] => l \in DOMAIN db.snap[c] \/ Excused(db.rejected, l)
      BY <1>1 DEF CommittedSound
    <3>5. db.rejected \cup NoWrites.rejected = db.rejected
      BY <2>1
    <3>6. own'[t].rejected = {} /\ db' = db /\ db.rejected \cup own'[t].rejected = db.rejected
      BY <1>2, <2>1
    <3>7. l <= db.wm[c] => l \in DOMAIN db.snap[c] \/ Excused(db.rejected, l)'
      BY <1>e, <3>4
    <3> HIDE DEF c
    <3> QED BY ONLY <3>3, <3>6, <3>7 DEF ChangeFits, c, Excused, Quarantined
  <2> QED BY <1>1, <1>2, <1>3, <2>1, <2>2 DEF ViewSound, CommittedSound, QuietHistory
<1>5. WorkSound(t)'
  BY <1>2, NothingType DEF WorkSound, Running, Failures, ResetBy, ResetAt
<1> QED BY <1>4, <1>5, MovedHistory

\* What a step is to keep of ViewSound and WorkSound, in terms of what it
\* sets the load's variables to.
ViewFits(t, step, work, writes, held) ==
    /\ \A c \in Clients :
          /\ c \in Changing => SoundHistory(c, Read(db.snap[c], writes.rows[c]), MarkIn(writes, c))
          /\ c \in Changing /\ <<"cdc_apply", c>> \notin held => Touched(writes.rows[c]) = {}
          /\ c \notin Changing => QuietHistory(writes.rows[c].put)
          /\ c \in Changing => \A r \in DOMAIN db.snap[c] :
                \/ r \in DOMAIN Read(db.snap[c], writes.rows[c])
                \/ Kind[t] = "reload" /\ r \in work.events
    /\ \A c \in DOMAIN writes.marks : MarkFits(t, c, work, writes)
    /\ \A l \in Lsns : ChangeFits(t, l, step, work, writes)

WorkFits(t, step, work, writes) ==
    /\ step = "apply" =>
          /\ work.item \in work.events
          /\ \A m \in work.events : IF Kind[t] = "apply" THEN Line[work.item] <= Line[m]
                                    ELSE work.item <= m
          /\ LET c == Wal[work.item].client IN
             Wal[work.item].op = "delete" => DOMAIN Read(db.snap[c], writes.rows[c]) # {}
    /\ step = "reset" =>
          work.keys = {l \in DOMAIN Read(db.snap[work.item], writes.rows[work.item]) :
                          l >= ReloadFrom[work.item]}
    /\ Kind[t] = "apply" =>
          \A k \in Lsns : \/ k \in work.events \/ k <= MarkIn(writes, Wal[k].client)
                          \/ Quarantined(writes.rejected, k)
    /\ Kind[t] = "reload" =>
          LET reset == ResetAt(t, step, work) IN
          /\ DOMAIN writes.marks \subseteq reset
          /\ \A k \in Lsns : <<"stale_lsn", k>> \notin writes.rejected
          /\ \A k \in Lsns : Wal[k].client \in reset /\ k >= ReloadFrom[Wal[k].client] =>
                \/ k \in work.events
                \/ k \in DOMAIN Read(db.snap[Wal[k].client], writes.rows[Wal[k].client])
                \/ Quarantined(writes.rejected, k)
          /\ \A k \in work.events : /\ k > MarkIn(writes, Wal[k].client)
                                    /\ Wal[k].client \in reset
                                    /\ k >= ReloadFrom[Wal[k].client]
    /\ Kind[t] = "seed" =>
          /\ work.pending \cap Changing \subseteq Seeded
          /\ step \in {"repoint", "delete"} => work.item \notin Changing
    /\ step \in {"allocate", "insert"} => FactRow[work.item].client \notin Changing

\* A step that keeps that and commits nothing keeps the invariant.
LEMMA FitsHistory ==
    ASSUME TypeInv, HistoryInv, NEW t \in Loads, NEW step, NEW work, NEW writes, NEW held,
           Moved(t, step, work, writes, held), UNCHANGED db, at[t] # "committed",
           ViewFits(t, step, work, writes, held), WorkFits(t, step, work, writes)
    PROVE  HistoryInv'
<1>1. at'[t] = step /\ job'[t] = work /\ own'[t] = writes /\ locks'[t] = held
  BY MovedOnly DEF TypeInv
<1>2. \A c : History(t, c)' = Read(db.snap[c], writes.rows[c]) /\ Mark(t, c)' = MarkIn(writes, c)
  BY <1>1 DEF History, Read, Mark, MarkIn
<1>e. \A q, l : Excused(q, l) => Excused(q, l)'
  BY StaysExcused DEF TypeInv
<1>3. ViewSound(t)'
  <2>1. \A c : MarkFits(t, c, work, writes) => MarkFits(t, c, job[t], own[t])'
    BY <1>1 DEF MarkFits, Read
  <2>2. \A l : ChangeFits(t, l, step, work, writes) => ChangeFits(t, l, at[t], job[t], own[t])'
    BY <1>1, <1>e DEF ChangeFits, Read, MarkIn, ResetAt
  <2> QED BY <1>1, <1>2, <2>1, <2>2 DEF ViewSound, ViewFits, HoldsApply
<1>4. WorkSound(t)'
  <2>1. ResetBy(t)' = ResetAt(t, step, work)
    BY <1>1, SMTT(40) DEF ResetBy, ResetAt
  <2>2. at'[t] = "apply" => /\ job'[t].item \in FirstEvent(t)'
                            /\ Wal[job'[t].item].op = "delete" =>
                                  DOMAIN History(t, Wal[job[t].item].client)' # {}
    <3>1. History(t, Wal[job[t].item].client)' = Read(db.snap[Wal[work.item].client], writes.rows[Wal[work.item].client])
      BY <1>1 DEF History, Read
    <3> QED BY <1>1, <3>1 DEF WorkFits, FirstEvent
  <2>3. at'[t] = "reset" =>
            job'[t].keys = {l \in DOMAIN History(t, job[t].item)' : l >= ReloadFrom[job'[t].item]}
    <3>1. History(t, job[t].item)' = Read(db.snap[work.item], writes.rows[work.item])
      BY <1>1 DEF History, Read
    <3> QED BY <1>1, <3>1 DEF WorkFits
  <2>4. /\ \A k : Mark(t, Wal[k].client)' = MarkIn(writes, Wal[k].client)
        /\ \A k : History(t, Wal[k].client)'
                      = Read(db.snap[Wal[k].client], writes.rows[Wal[k].client])
    BY <1>2
  <2>5. Kind[t] = "reload" => /\ DOMAIN own'[t].marks \subseteq ResetBy(t)'
                              /\ \A k \in Lsns : <<"stale_lsn", k>> \notin own'[t].rejected
                              /\ \A k \in Lsns : Wal[k].client \in ResetBy(t)' /\ k >= ReloadFrom[Wal[k].client] =>
                                    \/ k \in job'[t].events
                                    \/ k \in DOMAIN History(t, Wal[k].client)'
                                    \/ Quarantined(own'[t].rejected, k)
                              /\ \A k \in job'[t].events : /\ k > Mark(t, Wal[k].client)'
                                                           /\ Wal[k].client \in ResetBy(t)'
                                                           /\ k >= ReloadFrom[Wal[k].client]
    BY <1>1, <2>1, <2>4 DEF WorkFits
  <2>6. Kind[t] = "apply" => \A k \in Lsns : \/ k \in job'[t].events \/ k <= Mark(t, Wal[k].client)'
                                             \/ Quarantined(own'[t].rejected, k)
    BY <1>1, <2>4 DEF WorkFits
  <2> QED BY <1>1, <2>2, <2>3, <2>5, <2>6 DEF WorkSound, WorkFits, Quarantined
<1> QED BY <1>3, <1>4, MovedHistory

\* What a load sees is as sound as before if it writes no row and no mark,
\* quarantines no change above the mark, and has what it had to replay.
LEMMA QuietFits ==
    ASSUME NEW t \in Loads, ViewSound(t), NEW step, NEW work, NEW writes, NEW held,
           writes.rows = own[t].rows, writes.marks = own[t].marks, locks[t] \subseteq held,
           own[t].rejected \subseteq writes.rejected,
           \A l \in Lsns : <<"stale_lsn", l>> \in writes.rejected => l <= Mark(t, Wal[l].client),
           Kind[t] = "reload" =>
               /\ \A r \in job[t].events \ work.events : \A c \in Changing : r \notin DOMAIN db.snap[c]
               /\ \A c \in DOMAIN own[t].marks :
                     ReloadFrom[c] \in job[t].events \ work.events => DOMAIN History(t, c) = {}
               /\ ResetBy(t) \subseteq ResetAt(t, step, work)
    PROVE  ViewFits(t, step, work, writes, held)
<1>1. \A c : /\ Read(db.snap[c], writes.rows[c]) = History(t, c)
             /\ Read(db.snap[c], own[t].rows[c]) = History(t, c)
             /\ MarkIn(writes, c) = Mark(t, c) /\ MarkIn(own[t], c) = Mark(t, c)
  BY HistoryReads DEF Mark, MarkIn
<1>2. ASSUME NEW c \in DOMAIN writes.marks PROVE MarkFits(t, c, work, writes)
  <2>1. MarkFits(t, c, job[t], own[t])
    BY <1>2 DEF ViewSound
  <2> QED BY <1>1, <1>2, <2>1 DEF MarkFits
<1>3. ASSUME NEW l \in Lsns PROVE ChangeFits(t, l, step, work, writes)
  <2>1. ChangeFits(t, l, at[t], job[t], own[t])
    BY <1>3 DEF ViewSound
  <2>2. Excused(db.rejected \cup own[t].rejected, l) => Excused(db.rejected \cup writes.rejected, l)
    BY DEF Excused, Quarantined
  <2>3. ResetAt(t, at[t], job[t]) \subseteq ResetAt(t, step, work)
    BY DEF ResetBy, ResetAt
  <2> QED BY <1>1, <1>3, <2>1, <2>2, <2>3 DEF ChangeFits
<1> QED BY <1>1, <1>2, <1>3 DEF ViewSound, ViewFits, HoldsApply

\* A step that only goes on, with nothing new on its lists, keeps the invariant.
LEMMA GoingHistory ==
    ASSUME TypeInv, HistoryInv, NEW t \in Loads, Running(t),
           NEW step, NEW work, NEW writes, NEW held,
           Moved(t, step, work, writes, held), UNCHANGED db, locks[t] \subseteq held,
           writes.rows = own[t].rows, writes.marks = own[t].marks,
           writes.rejected = own[t].rejected,
           step \notin {"ready", "committed"} \cup Failures,
           step \notin {"apply", "reset"},
           step \in {"allocate", "insert"} => FactRow[work.item].client \notin Changing,
           work.events = job[t].events, Kind[t] = "reload" => work.pending = job[t].pending,
           Kind[t] = "seed" => /\ work.pending \cap Changing \subseteq Seeded
                               /\ step \notin {"repoint", "delete"} \/ at[t] = "repoint"
                               /\ work.item = job[t].item \/ step \notin {"repoint", "delete"}
    PROVE  HistoryInv'
<1>1. ViewSound(t) /\ WorkSound(t) /\ at[t] # "committed"
  BY DEF HistoryInv, Running
<1>2. ResetAt(t, step, work) = ResetBy(t)
  BY DEF ResetAt, ResetBy, Running
<1>3. \A c : MarkIn(writes, c) = Mark(t, c) /\ Read(db.snap[c], writes.rows[c]) = History(t, c)
  BY HistoryReads DEF MarkIn, Mark
<1>4. ViewFits(t, step, work, writes, held)
  <2>1. \A c : MarkIn(own[t], c) = Mark(t, c)
    BY DEF MarkIn, Mark
  <2>2. \A l \in Lsns : <<"stale_lsn", l>> \in writes.rejected => l <= Mark(t, Wal[l].client)
    BY <1>1, <2>1 DEF ViewSound, ChangeFits
  <2> QED BY <1>1, <1>2, <2>2, QuietFits
<1>5. WorkFits(t, step, work, writes)
  BY <1>1, <1>2, <1>3 DEF WorkFits, WorkSound
<1> QED BY <1>1, <1>4, <1>5, FitsHistory

\* Such are the steps of the fact loads, and the seeds' but for two.
LEMMA SeedAndFactHistory ==
    ASSUME TypeInv, HistoryInv, FactsOfKnownClients, NEW t \in Loads,
           \/ \E c \in Clients : CheckHistory(t, c)
           \/ BeginOrphans(t)
           \/ \E x \in Facts : Resolve(t, x)
           \/ StopgapAllowed(t) \/ AllocateStopgap(t) \/ Repoint(t) \/ Pinned(t)
    PROVE  HistoryInv'
<1> DEFINE j == job[t]
           i == j.item
           w == own[t]
<1>1. /\ Shape /\ ViewSound(t) /\ WorkSound(t) /\ InOrder(t, at[t], j, w, locks[t])
  BY ItemType DEF TypeInv, HistoryInv
<1>2. j = [events |-> j.events, pending |-> j.pending, left |-> j.left,
           orphans |-> j.orphans, item |-> j.item, seen |-> j.seen, keys |-> j.keys]
  BY ItemType
<1>3. Kind[t] = "seed" => /\ j.pending \cap Changing \subseteq Seeded
                          /\ at[t] \in {"repoint", "delete"} => i \notin Changing
  BY <1>1 DEF WorkSound
<1>4. \A X, l : /\ PinnedAs(t, X, l).rows = w.rows /\ PinnedAs(t, X, l).marks = w.marks
                /\ PinnedAs(t, X, l).rejected = w.rejected
  <2>1. w = [rows |-> w.rows, marks |-> w.marks, pins |-> w.pins, rejected |-> w.rejected]
    BY <1>1, LoadType DEF Writes
  <2> QED BY <2>1 DEF PinnedAs
<1>5. ASSUME NEW c \in Clients, CheckHistory(t, c) PROVE HistoryInv'
  <2>1. /\ at[t] = "next" /\ Kind[t] = "seed" /\ c \in j.pending /\ UNCHANGED db
        /\ \/ Moved(t, "next", Passed(t, c), w, locks[t])
           \/ Moved(t, "baseline", [j EXCEPT !.item = c], w, locks[t])
    BY <1>1, <1>5, CheckHistoryMoves
  <2> DEFINE passed == Passed(t, c)
             going == [j EXCEPT !.item = c]
  <2>2. /\ passed.events = j.events /\ passed.pending = j.pending \ {c}
        /\ going.events = j.events /\ going.pending = j.pending
    BY <1>2 DEF Passed
  <2>3. PICK step \in {"next", "baseline"}, work \in {passed, going} :
            Moved(t, step, work, w, locks[t])
    BY <2>1
  <2>4. work.events = j.events /\ work.pending \subseteq j.pending
    BY <2>2, <2>3
  <2>5. Running(t)
    BY <2>1 DEF Running, Failures
  <2>6. step \notin {"ready", "committed"} \cup Failures
    BY <2>3 DEF Failures
  <2> HIDE DEF passed, going, w
  <2> QED BY <1>3, <2>1, <2>3, <2>4, <2>5, <2>6, GoingHistory DEF w
<1>6. CASE BeginOrphans(t)
  <2> DEFINE S == {c \in Clients : \E l \in DOMAIN History(t, c) : l < 0}
                                         \ (ProfileClients \cup Excluded)
             work == [j EXCEPT !.orphans = TRUE, !.pending = S]
  <2>1. /\ at[t] = "next" /\ Kind[t] = "seed" /\ UNCHANGED db /\ Moved(t, "next", work, w, locks[t])
    BY <1>1, <1>6, OrphansMoves
  <2>2. work.events = j.events /\ work.pending = S
    BY <1>2
  <2>3. S \cap Changing = {}
    <3>1. \A c \in Clients \cap Changing : \A l \in DOMAIN History(t, c) : l >= 0 /\ l \in Int
      BY <1>1, HistoryType DEF ViewSound, SoundHistory, IsHistory
    <3>2. \A c \in Clients \cap Changing : ~ \E l \in DOMAIN History(t, c) : l < 0
      BY <3>1
    <3> QED BY <3>2
  <2>4. Running(t) /\ "next" \notin {"ready", "committed"} \cup Failures
    BY <2>1 DEF Running, Failures
  <2> HIDE DEF S, w, work
  <2> QED BY <2>1, <2>2, <2>3, <2>4, GoingHistory DEF w
<1>7. ASSUME NEW x \in Facts, Resolve(t, x) PROVE HistoryInv'
  <2>1. /\ at[t] = "next" /\ x \in j.left /\ UNCHANGED db
        /\ \/ \E l \in FoundFor(t, x) :
                 Moved(t, "pin", [j EXCEPT !.item = x, !.keys = {l}], w, locks[t])
           \/ Moved(t, "stopgap", [j EXCEPT !.item = x], w, locks[t])
    BY <1>1, <1>7, ResolveMoves
  <2>2. Kind[t] = "facts" /\ Running(t)
    BY <1>1, <2>1 DEF InOrder, Running, Failures
  <2>3. /\ [j EXCEPT !.item = x].events = j.events
        /\ \A l : [j EXCEPT !.item = x, !.keys = {l}].events = j.events
    BY <1>2
  <2>4. PICK step \in {"pin", "stopgap"} :
            \E work : Moved(t, step, work, w, locks[t]) /\ work.events = j.events
    BY <2>1, <2>3
  <2>5. PICK work : Moved(t, step, work, w, locks[t]) /\ work.events = j.events
    BY <2>4
  <2>6. step \notin {"ready", "committed"} \cup Failures
    BY <2>4 DEF Failures
  <2> HIDE DEF w
  <2> QED BY <2>1, <2>2, <2>4, <2>5, <2>6, GoingHistory DEF w
<1>8. CASE StopgapAllowed(t)
  <2> DEFINE held == locks[t] \cup StopgapLock(FactRow[j.item].client)
  <2>1. at[t] = "stopgap" /\ UNCHANGED db /\ Moved(t, "allocate", j, w, held)
    BY <1>8 DEF StopgapAllowed
  <2>2. Kind[t] = "facts" /\ Running(t) /\ "allocate" \notin {"ready", "committed"} \cup Failures
    BY <1>1, <2>1 DEF InOrder, Running, Failures
  <2>3. locks[t] \subseteq held
    OBVIOUS
  <2>4. FactRow[i].client \notin Changing
    <3> DEFINE c == FactRow[i].client
    <3>1. SUFFICES ASSUME c \in Changing PROVE FALSE
      OBVIOUS
    <3>2. i \in Facts /\ c \in Clients /\ c \in Seeded
      BY <2>1, <3>1, ItemType, LogType DEF FactsOfKnownClients
    <3>3. 0 \in DOMAIN History(t, c)
      BY <1>1, <3>1, <3>2 DEF ViewSound, SoundHistory
    <3>4. \A l \in DOMAIN History(t, c) : l < 0
      BY <1>8 DEF StopgapAllowed, HistoryOfItem
    <3> HIDE DEF c
    <3> QED BY <3>3, <3>4
  <2> HIDE DEF held, w
  <2> QED BY <2>1, <2>2, <2>3, <2>4, GoingHistory DEF w
<1>11. CASE AllocateStopgap(t)
  <2> DEFINE work == [j EXCEPT !.keys = StopgapLsns(HistoryOfItem(t))]
  <2>1. at[t] = "allocate" /\ UNCHANGED db /\ Moved(t, "insert", work, w, locks[t])
    BY <1>1, <1>11, AllocateMoves
  <2>2. Kind[t] = "facts" /\ Running(t) /\ "insert" \notin {"ready", "committed"} \cup Failures
    BY <1>1, <2>1 DEF InOrder, Running, Failures
  <2>3. work.events = j.events /\ work.item = i /\ FactRow[i].client \notin Changing
    BY <1>1, <1>2, <2>1 DEF WorkSound
  <2> HIDE DEF work, w
  <2> QED BY <2>1, <2>2, <2>3, GoingHistory DEF w
<1>9. CASE Repoint(t)
  <2> DEFINE writes == PinnedAs(t, PinnedTo(t, i, j.keys), 0)
  <2>1. at[t] = "repoint" /\ UNCHANGED db /\ Moved(t, "delete", j, writes, locks[t])
    BY <1>1, <1>9, RepointMoves
  <2>2. Kind[t] = "seed" /\ Running(t) /\ "delete" \notin {"ready", "committed"} \cup Failures
    BY <1>1, <2>1 DEF InOrder, Running, Failures
  <2>3. writes.rows = w.rows /\ writes.marks = w.marks /\ writes.rejected = w.rejected
    BY <1>4
  <2> HIDE DEF writes
  <2> QED BY <1>3, <2>1, <2>2, <2>3, GoingHistory
<1>10. CASE Pinned(t)
  <2>1. PICK l \in j.keys :
           Moved(t, "next", [j EXCEPT !.left = @ \ {i}, !.item = None, !.keys = {}],
                 PinnedAs(t, {i}, l), locks[t])
    BY <1>10 DEF Pinned
  <2> DEFINE work == [j EXCEPT !.left = @ \ {i}, !.item = None, !.keys = {}]
             writes == PinnedAs(t, {i}, l)
  <2>2. at[t] = "pin" /\ UNCHANGED db /\ Moved(t, "next", work, writes, locks[t])
    BY <1>10, <2>1 DEF Pinned
  <2>3. Kind[t] = "facts" /\ Running(t) /\ "next" \notin {"ready", "committed"} \cup Failures
    BY <1>1, <2>2 DEF InOrder, Running, Failures
  <2>4. /\ writes.rows = w.rows /\ writes.marks = w.marks /\ writes.rejected = w.rejected
        /\ work.events = j.events
    BY <1>2, <1>4
  <2> HIDE DEF writes, work
  <2> QED BY <2>2, <2>3, <2>4, GoingHistory
<1> QED BY <1>5, <1>6, <1>7, <1>8, <1>9, <1>10, <1>11

\* A load begins with the changes above the watermarks, or with the clients
\* to reset, or with such clients to seed as have their baseline if they change.
LEMMA BeginHistory ==
    ASSUME TypeInv, HistoryInv, BaselinesComeFirst, NEW t \in Loads, Begin(t)
    PROVE  HistoryInv'
<1>1. /\ Shape /\ ViewSound(t) /\ WorkSound(t) /\ InOrder(t, at[t], job[t], own[t], locks[t])
  BY ItemType DEF TypeInv, HistoryInv
<1>2. SUFFICES ASSUME NEW kind, NEW work, Start(t, kind, work),
                      at[t] = "ready" => WorkFits(t, "next", work, NoWrites)
               PROVE  HistoryInv'
  <2>1. \A S : /\ [NoWork EXCEPT !.events = S].events = S
               /\ [NoWork EXCEPT !.pending = S].events = {}
               /\ [NoWork EXCEPT !.pending = S].pending = S
               /\ [NoWork EXCEPT !.left = S].events = {}
               /\ [NoWork EXCEPT !.left = S].pending = {}
    BY DEF NoWork
  <2>2. \A c : MarkIn(NoWrites, c) = db.wm[c]
    BY NothingType DEF MarkIn
  <2>3. CASE BeginApply(t)
    <3> DEFINE S == {l \in Lsns : ~ (l <= db.wm[Wal[l].client])}
               work == [NoWork EXCEPT !.events = S]
    <3>1. Start(t, "apply", work) /\ Kind[t] = "apply"
      BY <2>3 DEF BeginApply, Start
    <3>2. work.events = S
      BY <2>1
    <3> HIDE DEF work
    <3>3. WorkFits(t, "next", work, NoWrites)
      BY <2>2, <3>1, <3>2 DEF WorkFits
    <3> QED BY <1>2, <3>1, <3>3
  <2>4. CASE BeginReload(t)
    <3> DEFINE work == [NoWork EXCEPT !.pending = DOMAIN ReloadFrom]
    <3>1. Start(t, "reload", work) /\ Kind[t] = "reload"
      BY <2>4 DEF BeginReload, Start
    <3>2. work.events = {} /\ work.pending = DOMAIN ReloadFrom
      BY <2>1
    <3> HIDE DEF work
    <3>3. ResetAt(t, "next", work) = {}
      BY <3>1, <3>2 DEF ResetAt, Failures
    <3>4. WorkFits(t, "next", work, NoWrites)
      BY <3>1, <3>2, <3>3, NothingType DEF WorkFits
    <3> QED BY <1>2, <3>1, <3>4
  <2>5. CASE BeginSeed(t)
    <3> DEFINE work == [NoWork EXCEPT !.pending = ProfileClients \ Excluded]
    <3>1. Start(t, "seed", work) /\ Kind[t] = "seed"
      BY <2>5 DEF BeginSeed, Start
    <3>2. work.pending = ProfileClients \ Excluded
      BY <2>1
    <3> HIDE DEF work
    <3>3. work.pending \cap Changing \subseteq Seeded
      BY <3>2 DEF BaselinesComeFirst
    <3>4. WorkFits(t, "next", work, NoWrites)
      BY <3>1, <3>3 DEF WorkFits
    <3> QED BY <1>2, <3>1, <3>4
  <2>6. CASE BeginFacts(t)
    <3> DEFINE work == [NoWork EXCEPT !.left = Source[t]]
    <3>1. Start(t, "facts", work) /\ Kind[t] = "facts"
      BY <2>6 DEF BeginFacts, Start
    <3> HIDE DEF work
    <3>2. WorkFits(t, "next", work, NoWrites)
      BY <3>1 DEF WorkFits
    <3> QED BY <1>2, <3>1, <3>2
  <2> QED BY <2>3, <2>4, <2>5, <2>6 DEF Begin
<1>3. /\ at[t] = "ready" /\ UNCHANGED db /\ Moved(t, "next", work, own[t], locks[t])
  BY <1>1, <1>2, StartMoves
<1>4. own[t] = NoWrites /\ job[t].events = {} /\ ResetBy(t) = {}
  BY <1>1, <1>3, NothingType DEF InOrder, ResetBy, ResetAt, NoWork
<1>5. ViewFits(t, "next", work, own[t], locks[t])
  <2>1. own[t].rejected = {} /\ DOMAIN own[t].marks = {}
    BY <1>4, NothingType
  <2> QED BY <1>1, <1>4, <2>1, QuietFits
<1>6. WorkFits(t, "next", work, own[t])
  BY <1>2, <1>3, <1>4
<1> QED BY <1>3, <1>5, <1>6, FitsHistory

\* What a running load has still to do, as WorkFits puts it.
LEMMA WorkNow ==
    ASSUME NEW t \in Loads, WorkSound(t), Running(t), NEW step, NEW work, NEW writes,
           writes.rows = own[t].rows, writes.marks = own[t].marks,
           own[t].rejected \subseteq writes.rejected,
           step \notin {"ready", "committed"} \cup Failures,
           step \notin {"apply", "reset", "repoint", "delete", "allocate", "insert"},
           work.events \subseteq job[t].events,
           Kind[t] = "apply" => \A k \in job[t].events \ work.events :
                  k <= Mark(t, Wal[k].client) \/ Quarantined(writes.rejected, k),
           Kind[t] = "reload" => /\ \A k \in job[t].events \ work.events :
                                       Quarantined(writes.rejected, k)
                                 /\ \A k \in Lsns : <<"stale_lsn", k>> \in writes.rejected =>
                                       <<"stale_lsn", k>> \in own[t].rejected,
           Kind[t] \in {"reload", "seed"} => work.pending = job[t].pending
    PROVE  WorkFits(t, step, work, writes)
<1>1. \A c : MarkIn(writes, c) = Mark(t, c) /\ Read(db.snap[c], writes.rows[c]) = History(t, c)
  BY HistoryReads DEF MarkIn, Mark
<1>2. Kind[t] = "reload" => ResetAt(t, step, work) = ResetBy(t)
  BY DEF ResetAt, ResetBy, Running
<1>3. \A k : Quarantined(own[t].rejected, k) => Quarantined(writes.rejected, k)
  BY DEF Quarantined
<1> QED BY <1>1, <1>2, <1>3 DEF WorkSound, WorkFits

\* Taking the lock and reading the watermark of the next change, or the
\* quarantine of a delete of nothing.
LEMMA LockEventHistory ==
    ASSUME TypeInv, HistoryInv, NEW t \in Loads, NEW l \in Lsns, LockEvent(t, l)
    PROVE  HistoryInv'
<1> DEFINE j == job[t]
           c == Wal[l].client
           G == History(t, c)
           work == [j EXCEPT !.item = l, !.seen = Mark(t, c)]
           held == locks[t] \cup MarkRow(c) \cup IF Kind[t] = "apply" THEN ApplyLock(c) ELSE {}
<1>1. Shape /\ CommittedSound /\ ViewSound(t) /\ WorkSound(t)
  BY SMTT(40) DEF TypeInv, HistoryInv
<1>2. /\ at[t] = "next" /\ l \in FirstEvent(t) /\ UNCHANGED db
      /\ \/ /\ Wal[l].op = "delete" /\ DOMAIN G = {}
            /\ Moved(t, "next", [j EXCEPT !.events = @ \ {l}],
                     Quarantining(t, <<"delete_with_no_baseline", l>>),
                     locks[t] \cup ApplyLock(c))
         \/ /\ ~ (Wal[l].op = "delete" /\ DOMAIN G = {})
            /\ Moved(t, "apply", work, own[t], held)
  BY <1>1, LockEventMoves
<1>3. /\ l \in j.events /\ Kind[t] \in {"apply", "reload"} /\ Running(t)
      /\ c \in Changing /\ c \in Clients /\ l \in Int /\ l > 0
      /\ Kind[t] = "reload" => \A m \in j.events : l <= m
      /\ j.events \subseteq Lsns /\ Lsns \subseteq Int
  BY <1>2, NextEvent, LogType
<1>4. j = [events |-> j.events, pending |-> j.pending, left |-> j.left,
           orphans |-> j.orphans, item |-> j.item, seen |-> j.seen, keys |-> j.keys]
  BY ItemType
<1>5. \A k \in Lsns : <<"stale_lsn", k>> \in own[t].rejected => k <= Mark(t, Wal[k].client)
  <2>1. \A d : MarkIn(own[t], d) = Mark(t, d)
    BY DEF MarkIn, Mark
  <2> QED BY <1>1, <2>1 DEF ViewSound, ChangeFits
<1>6. CASE /\ ~ (Wal[l].op = "delete" /\ DOMAIN G = {})
           /\ Moved(t, "apply", work, own[t], held)
  <2>1. /\ work.events = j.events /\ work.pending = j.pending /\ work.item = l
        /\ locks[t] \subseteq held
    BY <1>4
  <2> HIDE DEF work, held
  <2>2. ResetAt(t, "apply", work) = ResetBy(t)
    BY <1>3, <2>1 DEF ResetAt, ResetBy, Running, Failures
  <2>3. ViewFits(t, "apply", work, own[t], held)
    BY <1>1, <1>5, <2>1, <2>2, QuietFits
  <2>4. \A d : MarkIn(own[t], d) = Mark(t, d) /\ Read(db.snap[d], own[t].rows[d]) = History(t, d)
    BY HistoryReads DEF MarkIn, Mark
  <2>5. WorkFits(t, "apply", work, own[t])
    BY <1>1, <1>2, <1>3, <1>6, <2>1, <2>2, <2>4 DEF WorkFits, WorkSound, FirstEvent
  <2> QED BY <1>2, <1>6, <2>3, <2>5, FitsHistory
<1>7. CASE /\ Wal[l].op = "delete" /\ DOMAIN G = {}
           /\ Moved(t, "next", [j EXCEPT !.events = @ \ {l}],
                    Quarantining(t, <<"delete_with_no_baseline", l>>), locks[t] \cup ApplyLock(c))
  <2> DEFINE less == [j EXCEPT !.events = @ \ {l}]
             writes == Quarantining(t, <<"delete_with_no_baseline", l>>)
             wide == locks[t] \cup ApplyLock(c)
  <2>1. less.events = j.events \ {l} /\ less.pending = j.pending /\ locks[t] \subseteq wide
    BY <1>4
  <2>2. /\ writes.rows = own[t].rows /\ writes.marks = own[t].marks
        /\ writes.rejected = own[t].rejected \cup {<<"delete_with_no_baseline", l>>}
    BY <1>1, QuarantiningIs DEF Reasons
  <2> HIDE DEF less, writes, wide
  <2>3. ResetAt(t, "next", less) = ResetBy(t)
    BY <1>3, <2>1 DEF ResetAt, ResetBy, Running, Failures
  <2>4. ASSUME Kind[t] = "reload", NEW d \in Changing, l \in DOMAIN db.snap[d] PROVE FALSE
    <3>1. d \in Clients
      BY LogType DEF Changing
    <3>2. SoundHistory(d, db.snap[d], db.wm[d])
      BY <1>1, <3>1 DEF CommittedSound
    <3>3. d = c
      BY <1>3, <2>4, <3>2 DEF SoundHistory, LsnsOf
    <3>4. PICK k \in DOMAIN db.snap[c] : k < l
      BY <1>3, <1>7, <2>4, <3>2, <3>3 DEF SoundHistory
    <3>5. k \in j.events
      BY <1>1, <1>3, <1>7 DEF ViewSound
    <3>6. l <= k /\ k \in Int
      BY <1>3, <2>4, <3>5
    <3> QED BY <1>3, <3>4, <3>6
  <2>5. ASSUME Kind[t] = "reload", NEW d \in DOMAIN own[t].marks, ReloadFrom[d] = l
        PROVE  DOMAIN History(t, d) = {}
    <3>1. d \in DOMAIN ReloadFrom
      BY <1>1, <2>5 DEF WorkSound, ResetBy, ResetAt
    <3> QED BY <1>7, <2>5, <3>1, LoadsAssumption
  <2>6. \A k \in Lsns : <<"stale_lsn", k>> \in writes.rejected => k <= Mark(t, Wal[k].client)
    BY <1>5, <2>2
  <2>7. ViewFits(t, "next", less, writes, wide)
    BY <1>1, <2>1, <2>2, <2>3, <2>4, <2>5, <2>6, QuietFits
  <2>8. Quarantined(writes.rejected, l)
    BY <2>2 DEF Quarantined
  <2>9. WorkFits(t, "next", less, writes)
    <3>1. "next" \notin {"ready", "committed"} \cup Failures
      BY DEF Failures
    <3>2. \A k \in Lsns : <<"stale_lsn", k>> \in writes.rejected =>
              <<"stale_lsn", k>> \in own[t].rejected
      BY <2>2
    <3> QED BY <1>1, <1>3, <2>1, <2>2, <2>8, <3>1, <3>2, WorkNow
  <2> QED BY <1>2, <1>7, <2>7, <2>9, FitsHistory DEF less, writes, wide
<1> QED BY <1>2, <1>6, <1>7

\* A change found stale is below the mark, and on no reload's list.
LEMMA RejectHistory ==
    ASSUME TypeInv, LockInv, HistoryInv, NEW t \in Loads, RejectStale(t)
    PROVE  HistoryInv'
<1> DEFINE j == job[t]
           l == j.item
           work == After(t)
           writes == Quarantining(t, <<"stale_lsn", l>>)
<1>1. Shape /\ ViewSound(t) /\ WorkSound(t) /\ MarksLocked(t)
  BY DEF TypeInv, HistoryInv, LockInv
<1>2. /\ at[t] = "apply" /\ l <= j.seen /\ UNCHANGED db
      /\ Moved(t, "next", work, writes, locks[t])
  BY <1>1, RejectMoves
<1>3. /\ l \in Lsns /\ l \in j.events /\ Kind[t] \in {"apply", "reload"} /\ Running(t)
      /\ j.seen = Mark(t, Wal[l].client)
  <2>1. l \in FirstEvent(t)
    BY <1>1, <1>2 DEF WorkSound
  <2> QED BY <1>1, <1>2, <2>1, NextEvent DEF MarksLocked
<1>4. Kind[t] = "apply"
  <2>1. SUFFICES ASSUME Kind[t] = "reload" PROVE FALSE
    BY <1>3
  <2>2. l > Mark(t, Wal[l].client)
    BY <1>1, <1>3, <2>1 DEF WorkSound
  <2>3. l > j.seen
    BY <1>3, <2>2
  <2>4. l \in Int /\ j.seen \in Int
    <3>1. l \in Int
      BY <1>3, LogType
    <3> QED BY <3>1, ItemType
  <2> QED BY <1>2, <2>3, <2>4
<1>5. /\ writes.rows = own[t].rows /\ writes.marks = own[t].marks
      /\ writes.rejected = own[t].rejected \cup {<<"stale_lsn", l>>}
  BY <1>1, <1>3, QuarantiningIs DEF Reasons
<1>6. work.events = j.events \ {l}
  <2>1. j = [events |-> j.events, pending |-> j.pending, left |-> j.left,
           orphans |-> j.orphans, item |-> j.item, seen |-> j.seen, keys |-> j.keys]
    BY ItemType
  <2> QED BY <2>1 DEF After
<1> HIDE DEF writes, work
<1> DEFINE step == "next"
<1>7. ViewFits(t, step, work, writes, locks[t])
  <2>1. \A d : MarkIn(own[t], d) = Mark(t, d)
    BY DEF MarkIn, Mark
  <2>2. \A k \in Lsns : <<"stale_lsn", k>> \in own[t].rejected => k <= Mark(t, Wal[k].client)
    BY <1>1, <2>1 DEF ViewSound, ChangeFits
  <2>3. \A k \in Lsns : <<"stale_lsn", k>> \in writes.rejected => k <= Mark(t, Wal[k].client)
    BY <1>2, <1>3, <1>5, <2>2
  <2> HIDE DEF step
  <2> QED BY <1>1, <1>4, <1>5, <2>3, QuietFits
<1>8. WorkFits(t, step, work, writes)
  <2>1. \A k \in j.events \ work.events : k <= Mark(t, Wal[k].client)
    BY <1>2, <1>3, <1>6
  <2>2. /\ step \notin {"ready", "committed"} \cup Failures
        /\ step \notin {"apply", "reset", "repoint", "delete", "allocate", "insert"}
    BY DEF Failures
  <2> HIDE DEF step
  <2> QED BY <1>1, <1>3, <1>4, <1>5, <1>6, <2>1, <2>2, WorkNow
<1> QED BY <1>2, <1>7, <1>8, FitsHistory

\* Taking the lock of the next client to reset.
LEMMA LockForResetHistory ==
    ASSUME TypeInv, HistoryInv, NEW t \in Loads, NEW c \in Clients, LockForReset(t, c)
    PROVE  HistoryInv'
<1> DEFINE j == job[t]
           keys == {l \in DOMAIN History(t, c) : l >= ReloadFrom[c]}
           work == [j EXCEPT !.item = c, !.keys = keys]
           held == locks[t] \cup ReloadLock(c)
<1>1. Shape /\ ViewSound(t) /\ WorkSound(t)
  BY DEF TypeInv, HistoryInv
<1>2. /\ at[t] = "next" /\ Kind[t] = "reload" /\ UNCHANGED db
      /\ Moved(t, "reset", work, own[t], held)
  BY <1>1, LockForResetMoves
<1>3. /\ work.events = j.events /\ work.pending = j.pending /\ work.item = c /\ work.keys = keys
      /\ locks[t] \subseteq held
  <2>1. j = [events |-> j.events, pending |-> j.pending, left |-> j.left,
           orphans |-> j.orphans, item |-> j.item, seen |-> j.seen, keys |-> j.keys]
    BY ItemType
  <2> QED BY <2>1
<1> HIDE DEF work, held
<1>4. /\ \A d : MarkIn(own[t], d) = Mark(t, d) /\ Read(db.snap[d], own[t].rows[d]) = History(t, d)
      /\ ResetAt(t, "reset", work) = ResetBy(t) /\ Running(t)
  BY <1>2, <1>3, HistoryReads DEF MarkIn, Mark, ResetAt, ResetBy, Running, Failures
<1>5. ViewFits(t, "reset", work, own[t], held)
  <2>1. \A k \in Lsns : <<"stale_lsn", k>> \in own[t].rejected => k <= Mark(t, Wal[k].client)
    BY <1>1, <1>4 DEF ViewSound, ChangeFits
  <2> QED BY <1>1, <1>3, <1>4, <2>1, QuietFits
<1>6. WorkFits(t, "reset", work, own[t])
  BY <1>1, <1>2, <1>3, <1>4 DEF WorkFits, WorkSound
<1> QED BY <1>2, <1>5, <1>6, FitsHistory

\* What a load sees is sound when the one history it writes is.
LEMMA WrittenFits ==
    ASSUME Shape, CommittedSound, NEW t \in Loads, ViewSound(t), WorkSound(t),
           NEW c \in Clients, NEW H, IsHistory(H), NEW step, NEW work, NEW writes,
           writes.rows[c] = Edit(db.snap[c], H), writes.rejected = own[t].rejected,
           \A d \in Clients : d # c => /\ writes.rows[d] = own[t].rows[d]
                                       /\ MarkIn(writes, d) = Mark(t, d),
           \A d \in DOMAIN writes.marks : d # c => /\ d \in DOMAIN own[t].marks
                                                   /\ writes.marks[d] = own[t].marks[d],
           Kind[t] = "reload" => \A r \in job[t].events \ work.events : Wal[r].client = c,
           ResetBy(t) \subseteq ResetAt(t, step, work),
           c \in Changing => SoundHistory(c, H, MarkIn(writes, c)),
           c \in Changing /\ ~ HoldsApply(t, c) => Touched(writes.rows[c]) = {},
           c \notin Changing => QuietHistory(H),
           c \in Changing => \A r \in DOMAIN db.snap[c] :
               r \in DOMAIN H \/ (Kind[t] = "reload" /\ r \in work.events),
           c \in DOMAIN writes.marks => MarkFits(t, c, work, writes),
           \A l \in LsnsOf(c) : ChangeFits(t, l, step, work, writes)
    PROVE  ViewFits(t, step, work, writes, locks[t])
<1> DEFINE base == db.snap[c]
<1>1. base \in Histories /\ job[t].events \subseteq Lsns
  BY HistoryType, LoadType DEF Jobs
<1>2. /\ Read(base, Edit(base, H)) = H
      /\ DOMAIN Edit(base, H).put \subseteq DOMAIN H
      /\ \A l \in DOMAIN Edit(base, H).put : Edit(base, H).put[l] = H[l]
  <2> HIDE DEF base
  <2> QED BY <1>1, EditType
<1>3. c \notin Changing => QuietHistory(writes.rows[c].put)
  BY <1>2 DEF QuietHistory
<1>4. ASSUME NEW d \in Clients, d # c
      PROVE  /\ writes.rows[d] = own[t].rows[d] /\ MarkIn(writes, d) = Mark(t, d)
             /\ Read(db.snap[d], writes.rows[d]) = History(t, d)
             /\ Read(db.snap[d], own[t].rows[d]) = History(t, d) /\ MarkIn(own[t], d) = Mark(t, d)
  BY <1>4, HistoryReads DEF MarkIn, Mark
<1>5. ASSUME NEW d \in Clients, d \in Changing, NEW r \in DOMAIN db.snap[d]
      PROVE  \/ r \in DOMAIN Read(db.snap[d], writes.rows[d])
             \/ Kind[t] = "reload" /\ r \in work.events
  <2>1. CASE d = c
    BY <1>2, <1>5, <2>1
  <2>2. CASE d # c
    <3>1. r \in DOMAIN History(t, d) \/ (Kind[t] = "reload" /\ r \in job[t].events)
      BY <1>5 DEF ViewSound
    <3>2. ASSUME Kind[t] = "reload", r \in job[t].events PROVE r \in work.events
      <4>1. r \in Lsns /\ r \in Int /\ r > 0
        BY <1>1, <3>2, LogType
      <4>2. Wal[r].client = d
        BY <1>5, <4>1 DEF CommittedSound, SoundHistory, LsnsOf
      <4> QED BY <2>2, <3>2, <4>2
    <3> QED BY <1>4, <2>2, <3>1, <3>2
  <2> QED BY <2>1, <2>2
<1>6. ASSUME NEW d \in Clients
      PROVE  /\ d \in Changing => SoundHistory(d, Read(db.snap[d], writes.rows[d]), MarkIn(writes, d))
             /\ d \in Changing /\ <<"cdc_apply", d>> \notin locks[t] => Touched(writes.rows[d]) = {}
             /\ d \notin Changing => QuietHistory(writes.rows[d].put)
  <2>1. CASE d = c
    BY <1>2, <1>3, <2>1 DEF HoldsApply
  <2>2. CASE d # c
    BY <1>4, <2>2 DEF ViewSound, HoldsApply
  <2> QED BY <2>1, <2>2
<1>7. ASSUME NEW d \in DOMAIN writes.marks PROVE MarkFits(t, d, work, writes)
  <2>1. CASE d = c
    BY <2>1, <1>7
  <2>2. CASE d # c
    <3>1. /\ d \in DOMAIN own[t].marks /\ writes.marks[d] = own[t].marks[d] /\ d \in Clients
      BY <1>7, <2>2, LoadType, PartialIs DEF Writes
    <3>2. MarkFits(t, d, job[t], own[t])
      BY <3>1 DEF ViewSound
    <3>3. ASSUME Kind[t] = "reload", ReloadFrom[d] \in job[t].events
          PROVE  ReloadFrom[d] \in work.events
      <4>1. d \in DOMAIN ReloadFrom
        BY <3>1, <3>3 DEF WorkSound, ResetBy, ResetAt
      <4> QED BY <2>2, <3>3, <4>1, LoadsAssumption
    <3> QED BY <1>4, <2>2, <3>1, <3>2, <3>3 DEF MarkFits
  <2> QED BY <2>1, <2>2
<1>8. ASSUME NEW l \in Lsns PROVE ChangeFits(t, l, step, work, writes)
  <2>1. CASE Wal[l].client = c
    BY <2>1 DEF LsnsOf
  <2>2. CASE Wal[l].client # c
    <3>1. ChangeFits(t, l, at[t], job[t], own[t]) /\ Wal[l].client \in Clients
      BY LogType DEF ViewSound
    <3>2. ResetAt(t, at[t], job[t]) \subseteq ResetAt(t, step, work)
      BY DEF ResetBy
    <3> QED BY <1>4, <2>2, <3>1, <3>2 DEF ChangeFits
  <2> QED BY <2>1, <2>2
<1> QED BY <1>5, <1>6, <1>7, <1>8 DEF ViewFits

\* The apply of a change that is not stale keeps the invariant.
LEMMA AppliedHistory ==
    ASSUME TypeInv, LockInv, HistoryInv, NEW t \in Loads, Applied(t)
    PROVE  HistoryInv'
<1> DEFINE j == job[t]
           i == j.item
           c == Wal[i].client
           G == History(t, c)
           H == Appended(t)
           mark == [d \in {c} |-> i]
           writes == MarkedAs(t, c, H, mark)
           work == After(t)
<1>1. Shape /\ CommittedSound /\ ViewSound(t) /\ WorkSound(t) /\ MarksLocked(t)
  BY DEF TypeInv, HistoryInv, LockInv
<1>2. at[t] = "apply" /\ i > j.seen /\ UNCHANGED db
  BY DEF Applied
<1>3. Moved(t, "next", work, writes, locks[t])
  BY ONLY Applied(t) DEF Applied
<1>4. i \in FirstEvent(t) /\ j.seen = Mark(t, c) /\ HoldsApply(t, c) /\ Running(t)
  BY <1>1, <1>2 DEF WorkSound, MarksLocked, Running, Failures
<1>5. /\ i \in Lsns /\ i \in j.events /\ c \in Changing /\ c \in Clients
      /\ Kind[t] \in {"apply", "reload"} /\ i \in LsnsOf(c) /\ j.events \subseteq Lsns
      /\ Kind[t] = "apply" => \A m \in j.events : Line[i] <= Line[m]
      /\ Kind[t] = "reload" => \A m \in j.events : i <= m
      /\ Wal[i].op = "delete" => DOMAIN G # {}
  BY <1>1, <1>2, <1>4, NextEvent DEF WorkSound
<1>6. /\ i \in Int /\ i > 0 /\ j.seen \in Int /\ Mark(t, c) \in Int /\ Mark(t, c) < i
      /\ Lsns \subseteq Int
  <2>1. i \in Int /\ i > 0 /\ Lsns \subseteq Int
    BY <1>5, LogType
  <2>2. j.seen \in Int
    BY ItemType
  <2> QED BY <1>2, <1>4, <2>1, <2>2
<1>7. IsHistory(H) /\ IsHistory(G)
  BY <1>1, <1>5, AppendedType, HistoryType
<1>8. SoundHistory(c, H, i) /\ DOMAIN H = DOMAIN G \cup {i}
  <2> DEFINE ts == Wal[i].commit_ts
             attrs == <<i, 1>>
             m == Mark(t, c)
  <2>1. /\ ts \in Int /\ Wal[i].op \in {"insert", "update", "delete"}
        /\ SoundHistory(c, G, m)
    BY <1>1, <1>5, LogType DEF ViewSound
  <2>2. H = IF Wal[i].op = "delete" THEN ApplyDelete(G, i, ts) ELSE ApplyUpsert(G, i, ts, attrs)
    BY DEF Appended
  <2>3. \/ H = ApplyUpsert(G, i, ts, attrs) /\ Wal[i].op # "delete"
        \/ H = ApplyDelete(G, i, ts) /\ DOMAIN G # {}
    BY <1>5, <2>2
  <2>4. i \in LsnsOf(c) /\ m \in Int /\ m < i
    BY <1>5, <1>6
  <2> HIDE DEF G, H, ts, attrs, m, c, i, j
  <2> QED BY <1>7, <2>1, <2>3, <2>4, SoundAppended, SMTT(40)
<1>9. mark \in Partial(Clients, Marks \ {None}) /\ DOMAIN mark = {c} /\ mark[c] = i
  <2>1. DOMAIN mark = {c} /\ mark[c] = i /\ mark = [d \in DOMAIN mark |-> mark[d]]
    OBVIOUS
  <2>2. i \in Marks \ {None}
    BY <1>5, <1>6 DEF Marks, None
  <2> HIDE DEF mark
  <2> QED BY <1>5, <2>1, <2>2, PartialIs
<1> HIDE DEF mark, H
<1>10. /\ writes.rows[c] = Edit(db.snap[c], H)
       /\ writes.marks = Overlay(own[t].marks, mark)
       /\ writes.rejected = own[t].rejected
       /\ \A d \in Clients : d # c => writes.rows[d] = own[t].rows[d]
  <2> HIDE DEF c, i, j
  <2>1. /\ Shape /\ c \in Clients /\ IsHistory(H)
        /\ mark \in Partial(Clients, Marks \ {None})
    BY <1>1, <1>5, <1>7, <1>9
  <2>2. \A d \in Clients : d # c => MarkedAs(t, c, H, mark).rows[d] = own[t].rows[d]
    <3>1. SUFFICES ASSUME NEW d \in Clients, d # c
                   PROVE  MarkedAs(t, c, H, mark).rows[d] = own[t].rows[d]
      OBVIOUS
    <3> QED BY ONLY <2>1, <3>1, MarkedIs, t \in Loads, d \in Clients
  <2>3. /\ MarkedAs(t, c, H, mark).rows[c] = Edit(db.snap[c], H)
        /\ MarkedAs(t, c, H, mark).marks = Overlay(own[t].marks, mark)
        /\ MarkedAs(t, c, H, mark).rejected = own[t].rejected
    BY ONLY <2>1, MarkedIs, t \in Loads
  <2> QED BY <2>2, <2>3
<1>11. /\ DOMAIN writes.marks = DOMAIN own[t].marks \cup {c}
       /\ \A d \in DOMAIN own[t].marks \cup {c} :
             writes.marks[d] = IF d = c THEN i ELSE own[t].marks[d]
  <2> DEFINE before == own[t].marks
  <2>1. writes.marks = Overlay(before, mark) /\ DOMAIN mark = {c} /\ mark[c] = i
    BY <1>9, <1>10, Zenon
  <2> HIDE DEF writes, before, i, c, j
  <2>2. /\ DOMAIN Overlay(before, mark) = DOMAIN before \cup DOMAIN mark
        /\ \A x \in DOMAIN before \cup DOMAIN mark :
               Overlay(before, mark)[x] = IF x \in DOMAIN mark THEN mark[x] ELSE before[x]
    BY OverlayIs
  <2> QED BY <2>1, <2>2, SMTT(40) DEF before
<1>12. MarkIn(writes, c) = i /\ \A d : d # c => MarkIn(writes, d) = Mark(t, d)
  BY <1>11 DEF MarkIn, Mark
<1>13. work.events = j.events \ {i} /\ work.pending = j.pending
  <2>1. j = [events |-> j.events, pending |-> j.pending, left |-> j.left,
           orphans |-> j.orphans, item |-> j.item, seen |-> j.seen, keys |-> j.keys]
    BY ItemType
  <2> QED BY <2>1 DEF After
<1> HIDE DEF writes, work
<1>14. \A k \in Lsns : k <= Mark(t, Wal[k].client) => k <= MarkIn(writes, Wal[k].client)
  <2>1. SUFFICES ASSUME NEW k \in Lsns, k <= Mark(t, Wal[k].client)
                 PROVE  k <= MarkIn(writes, Wal[k].client)
    OBVIOUS
  <2>2. CASE Wal[k].client = c
    <3>1. k <= Mark(t, c) /\ MarkIn(writes, Wal[k].client) = i /\ k \in Int
      BY <1>6, <1>12, <2>1, <2>2
    <3> HIDE DEF i, c, j
    <3> QED BY <1>6, <3>1
  <2>3. CASE Wal[k].client # c
    BY <1>12, <2>1, <2>3, SMTT(40)
  <2> QED BY <2>2, <2>3
<1>15. /\ ResetAt(t, "next", work) = ResetBy(t)
       /\ Read(db.snap[c], writes.rows[c]) = H /\ Read(db.snap[c], own[t].rows[c]) = G
       /\ \A d \in Clients : d # c => Read(db.snap[d], writes.rows[d]) = History(t, d)
       /\ \A d : MarkIn(own[t], d) = Mark(t, d)
  <2>1. ResetAt(t, "next", work) = ResetBy(t)
    BY <1>4, <1>13 DEF ResetAt, ResetBy, Running, Failures
  <2>2. Read(db.snap[c], Edit(db.snap[c], H)) = H
    <3> DEFINE base == db.snap[c]
    <3>1. base \in Histories
      BY <1>1, <1>5, HistoryType
    <3> HIDE DEF base
    <3>2. Read(base, Edit(base, H)) = H
      BY <1>7, <3>1, EditType
    <3> QED BY <3>2 DEF base
  <2>3. \A d : MarkIn(own[t], d) = Mark(t, d)
    BY SMTT(40) DEF MarkIn, Mark
  <2> QED BY <1>10, <2>1, <2>2, <2>3, HistoryReads
<1>16. \A k \in LsnsOf(c) : ChangeFits(t, k, "next", work, writes)
  <2>1. SUFFICES ASSUME NEW k \in LsnsOf(c) PROVE ChangeFits(t, k, "next", work, writes)
    OBVIOUS
  <2>2. k \in Lsns /\ Wal[k].client = c /\ k \in Int
    BY <1>6 DEF LsnsOf
  <2>3. ChangeFits(t, k, at[t], job[t], own[t])
    BY <1>1, <2>2, SMTT(40) DEF ViewSound
  <2>4. /\ <<"stale_lsn", k>> \in own[t].rejected => k <= Mark(t, c)
        /\ k <= Mark(t, c) => \/ k \in DOMAIN G
                              \/ Excused(db.rejected \cup own[t].rejected, k)
                              \/ c \in ResetBy(t) /\ k < ReloadFrom[c]
    BY <1>15, <2>2, <2>3 DEF ChangeFits, ResetBy
  <2>5. ASSUME k < i, ~ (k <= Mark(t, c))
        PROVE  \/ k \in DOMAIN G
               \/ Excused(db.rejected \cup own[t].rejected, k)
               \/ c \in ResetBy(t) /\ k < ReloadFrom[c]
    <3>1. CASE Kind[t] = "apply"
      <4>1. k \in j.events \/ Quarantined(own[t].rejected, k)
        BY <1>1, <1>4, <2>2, <2>5, <3>1 DEF WorkSound
      <4>2. k \in j.events => Overtaken(k)
        BY <1>5, <2>2, <2>5, <3>1 DEF Overtaken
      <4> QED BY <4>1, <4>2 DEF Excused, Quarantined
    <3>2. CASE Kind[t] = "reload"
      <4>1. c \in ResetBy(t)
        BY <1>1, <1>5, <3>2 DEF WorkSound
      <4>2. c \in DOMAIN ReloadFrom /\ ReloadFrom[c] \in Int
        BY <4>1, <1>6, LogType DEF ResetBy, ResetAt
      <4>3. k \notin j.events
        BY <1>5, <1>6, <2>2, <2>5, <3>2
      <4>4. CASE k >= ReloadFrom[c]
        <5>1. k \in DOMAIN G \/ Quarantined(own[t].rejected, k)
          BY <1>1, <2>2, <3>2, <4>1, <4>3, <4>4 DEF WorkSound
        <5> QED BY <5>1 DEF Excused, Quarantined
      <4> QED BY <2>2, <4>1, <4>2, <4>4
    <3> QED BY <1>5, <3>1, <3>2
  <2>6. /\ <<"stale_lsn", k>> \in writes.rejected => k <= i
        /\ k <= i => \/ k \in DOMAIN H
                     \/ Excused(db.rejected \cup writes.rejected, k)
                     \/ c \in ResetBy(t) /\ k < ReloadFrom[c]
    <3> DEFINE m == Mark(t, c)
    <3>1. m \in Int /\ m < i /\ i \in Int /\ k \in Int
      BY <1>6, <2>2
    <3>2. /\ <<"stale_lsn", k>> \in own[t].rejected => k <= m
          /\ k <= m => \/ k \in DOMAIN G
                       \/ Excused(db.rejected \cup own[t].rejected, k)
                       \/ c \in ResetBy(t) /\ k < ReloadFrom[c]
          /\ k < i /\ ~ (k <= m) => \/ k \in DOMAIN G
                                    \/ Excused(db.rejected \cup own[t].rejected, k)
                                    \/ c \in ResetBy(t) /\ k < ReloadFrom[c]
      BY <2>4, <2>5
    <3>3. DOMAIN H = DOMAIN G \cup {i} /\ writes.rejected = own[t].rejected
      BY <1>8, <1>10, SMTT(40)
    <3> HIDE DEF m, i, c, G, j
    <3> QED BY <3>1, <3>2, <3>3
  <2> QED BY <1>12, <1>15, <2>2, <2>6 DEF ChangeFits
<1>17. MarkFits(t, c, work, writes)
  <2>1. ASSUME Kind[t] # "reload" PROVE db.wm[c] <= i
    <3>1. db.wm[c] \in Int
      <4>1. Marks \subseteq Int
        BY LogType DEF Marks, None
      <4> QED BY <1>1, <1>5, <4>1, LoadType DEF Tables
    <3>2. db.wm[c] <= Mark(t, c)
      BY <1>1, <2>1, <3>1 DEF Mark, ViewSound, MarkFits
    <3> HIDE DEF i, c, j
    <3> QED BY <1>6, <3>1, <3>2
  <2> QED BY <1>5, <1>8, <1>11, <1>15, <2>1, Zenon DEF MarkFits
<1>18. \A r \in DOMAIN db.snap[c] : r \in DOMAIN H \/ (Kind[t] = "reload" /\ r \in work.events)
  <2>1. \A r \in DOMAIN db.snap[c] : r \in DOMAIN G \/ (Kind[t] = "reload" /\ r \in j.events)
    BY <1>1, <1>5 DEF ViewSound
  <2> QED BY <1>8, <1>13, <2>1
<1>19. ViewFits(t, "next", work, writes, locks[t])
  <2>1. /\ c \in Changing => SoundHistory(c, H, MarkIn(writes, c))
        /\ c \in Changing /\ ~ HoldsApply(t, c) => Touched(writes.rows[c]) = {}
        /\ c \notin Changing => QuietHistory(H)
    BY <1>4, <1>5, <1>8, <1>12, SMTT(40)
  <2>2. /\ \A d \in Clients : d # c => /\ writes.rows[d] = own[t].rows[d]
                                       /\ MarkIn(writes, d) = Mark(t, d)
        /\ \A d \in DOMAIN writes.marks : d # c => /\ d \in DOMAIN own[t].marks
                                                   /\ writes.marks[d] = own[t].marks[d]
    BY <1>10, <1>11, <1>12
  <2>3. \A r \in job[t].events \ work.events : Wal[r].client = c
    BY <1>13
  <2>4. ResetBy(t) \subseteq ResetAt(t, "next", work)
    BY <1>15
  <2> HIDE DEF c, i, j
  <2> QED BY <1>1, <1>5, <1>7, <1>10, <1>16, <1>17, <1>18, <2>1, <2>2, <2>3, <2>4, WrittenFits
<1>20. WorkFits(t, "next", work, writes)
  <2>1. ASSUME Kind[t] = "apply", NEW k \in Lsns
        PROVE  \/ k \in work.events \/ k <= MarkIn(writes, Wal[k].client)
               \/ Quarantined(writes.rejected, k)
    <3>1. i <= MarkIn(writes, Wal[i].client)
      BY <1>6, <1>12, SMTT(40)
    <3> QED BY <1>1, <1>4, <1>10, <1>13, <1>14, <2>1, <3>1 DEF WorkSound
  <2>2. ASSUME Kind[t] = "reload"
        PROVE  LET reset == ResetAt(t, "next", work) IN
               /\ DOMAIN writes.marks \subseteq reset
               /\ \A k \in Lsns : <<"stale_lsn", k>> \notin writes.rejected
               /\ \A k \in Lsns : Wal[k].client \in reset /\ k >= ReloadFrom[Wal[k].client] =>
                     \/ k \in work.events
                     \/ k \in DOMAIN Read(db.snap[Wal[k].client], writes.rows[Wal[k].client])
                     \/ Quarantined(writes.rejected, k)
               /\ \A k \in work.events : /\ k > MarkIn(writes, Wal[k].client)
                                         /\ Wal[k].client \in reset
                                         /\ k >= ReloadFrom[Wal[k].client]
    <3>1. /\ DOMAIN own[t].marks \subseteq ResetBy(t) /\ c \in ResetBy(t)
          /\ \A k \in Lsns : Wal[k].client \in ResetBy(t) /\ k >= ReloadFrom[Wal[k].client] =>
                \/ k \in j.events
                \/ k \in DOMAIN History(t, Wal[k].client)
                \/ Quarantined(own[t].rejected, k)
          /\ \A k \in j.events : /\ k > Mark(t, Wal[k].client)
                                 /\ Wal[k].client \in ResetBy(t)
                                 /\ k >= ReloadFrom[Wal[k].client]
      BY <1>1, <1>5, <2>2 DEF WorkSound
    <3>2. ASSUME NEW k \in Lsns, Wal[k].client \in ResetBy(t), k >= ReloadFrom[Wal[k].client]
          PROVE  \/ k \in work.events
                 \/ k \in DOMAIN Read(db.snap[Wal[k].client], writes.rows[Wal[k].client])
                 \/ Quarantined(writes.rejected, k)
      <4> DEFINE d == Wal[k].client
      <4>1. \/ k \in j.events
            \/ k \in DOMAIN History(t, d)
            \/ Quarantined(own[t].rejected, k)
        BY <3>1, <3>2
      <4>2. d \in Clients
        BY LogType
      <4>3. CASE d = c
        <5>1. k \in j.events => k \in work.events \/ k \in DOMAIN H
          BY <1>8, <1>13
        <5>2. History(t, d) = G /\ Read(db.snap[d], writes.rows[d]) = H
          BY <1>15, <4>3
        <5> QED BY <1>8, <1>10, <4>1, <5>1, <5>2
      <4>4. CASE d # c
        <5>1. k # i /\ Read(db.snap[d], writes.rows[d]) = History(t, d)
          BY <1>15, <4>2, <4>4
        <5> QED BY <1>10, <1>13, <4>1, <5>1
      <4> QED BY <4>3, <4>4
    <3>3. ASSUME NEW k \in work.events PROVE k > MarkIn(writes, Wal[k].client)
      <4>1. k \in j.events /\ k # i /\ k \in Int /\ i <= k
        BY <1>5, <1>6, <1>13, <2>2
      <4>2. CASE Wal[k].client = c
        <5>1. k > i
          BY <1>6, <4>1
        <5> QED BY <1>12, <4>2, <5>1
      <4>3. CASE Wal[k].client # c
        BY <1>12, <3>1, <4>1, <4>3, SMTT(40)
      <4> QED BY <4>2, <4>3
    <3>4. /\ DOMAIN writes.marks \subseteq ResetBy(t)
          /\ \A k \in Lsns : <<"stale_lsn", k>> \notin writes.rejected
      BY <1>1, <1>10, <1>11, <2>2, <3>1 DEF WorkSound
    <3>5. \A k \in work.events : Wal[k].client \in ResetBy(t) /\ k >= ReloadFrom[Wal[k].client]
      BY <1>13, <3>1
    <3> QED BY <1>15, <3>2, <3>3, <3>4, <3>5, Zenon
  <2>3. Kind[t] # "seed"
    BY <1>5
  <2> QED BY <2>1, <2>2, <2>3 DEF WorkFits
<1> QED BY <1>2, <1>3, <1>19, <1>20, FitsHistory

\* A reset keeps the invariant: what it deletes is on the list to replay.
LEMMA ResetHistory ==
    ASSUME TypeInv, LockInv, HistoryInv, NEW t \in Loads, Reset(t)
    PROVE  HistoryInv'
<1> DEFINE j == job[t]
           c == j.item
           from == ReloadFrom[c]
           G == History(t, c)
           H == Remaining(t)
           mark == RolledBack(t)
           events == {l \in Lsns : Wal[l].client = c /\ l >= from}
           work == [j EXCEPT !.pending = @ \ {c}, !.item = None, !.keys = {}, !.events = events]
           writes == MarkedAs(t, c, H, mark)
<1>1. /\ Shape /\ CommittedSound /\ ViewSound(t) /\ WorkSound(t) /\ MarksLocked(t)
      /\ InOrder(t, at[t], j, own[t], locks[t])
  BY ItemType, SMTT(40) DEF TypeInv, HistoryInv, LockInv
<1>2. at[t] = "reset" /\ UNCHANGED db /\ Moved(t, "next", work, writes, locks[t])
  BY <1>1, ResetMoves
<1>3. /\ c \in j.pending /\ Kind[t] = "reload" /\ j.events = {} /\ HoldsApply(t, c) /\ Running(t)
      /\ j.keys = {l \in DOMAIN G : l >= from}
  BY <1>1, <1>2 DEF InOrder, MarksLocked, WorkSound, Running, Failures
<1>4. /\ c \in DOMAIN ReloadFrom /\ c \in Clients /\ c \in Changing
      /\ from \in Lsns /\ from \in Int /\ from > 0 /\ Lsns \subseteq Int
  <2>1. c \in DOMAIN ReloadFrom
    BY <1>2, ItemType
  <2> QED BY <2>1, LogType DEF Changing
<1>5. /\ c \notin DOMAIN own[t].marks /\ Mark(t, c) = db.wm[c]
      /\ DOMAIN own[t].marks \subseteq ResetBy(t)
      /\ \A k \in Lsns : <<"stale_lsn", k>> \notin own[t].rejected
      /\ \A k \in Lsns : Wal[k].client \in ResetBy(t) /\ k >= ReloadFrom[Wal[k].client] =>
            k \in DOMAIN History(t, Wal[k].client) \/ Quarantined(own[t].rejected, k)
  <2>1. /\ DOMAIN own[t].marks \subseteq ResetBy(t)
        /\ \A k \in Lsns : <<"stale_lsn", k>> \notin own[t].rejected
        /\ \A k \in Lsns : Wal[k].client \in ResetBy(t) /\ k >= ReloadFrom[Wal[k].client] =>
              k \in DOMAIN History(t, Wal[k].client) \/ Quarantined(own[t].rejected, k)
    BY <1>1, <1>3 DEF WorkSound
  <2>2. c \notin ResetBy(t)
    BY <1>3 DEF ResetBy, ResetAt
  <2> QED BY <2>1, <2>2 DEF Mark
<1>7. /\ IsHistory(H) /\ IsHistory(G) /\ mark \in Partial(Clients, Marks \ {None})
      /\ DOMAIN mark = (IF Mark(t, c) = None THEN {} ELSE {c})
      /\ \A d \in DOMAIN mark : mark[d] = from - 1
  BY <1>1, <1>4, RemainingType, HistoryType
<1>8. H = ResetFrom(G, from)
  <2> DEFINE missed == {l \in DOMAIN G : l >= from} \ j.keys
             kept == [l \in missed |-> G[l]]
             below == ResetFrom(G, from)
  <2>1. H = Overlay(below, kept)
    BY DEF Remaining
  <2>2. missed = {}
    BY <1>3
  <2>3. DOMAIN kept = {} /\ below = [l \in DOMAIN below |-> below[l]]
    BY <2>2 DEF ResetFrom
  <2> HIDE DEF below, kept
  <2>4. Overlay(below, kept) = [l \in DOMAIN below |-> below[l]]
    BY <2>3 DEF Overlay
  <2> QED BY <2>1, <2>3, <2>4 DEF below
<1> HIDE DEF mark, H
<1>9. /\ writes.rows[c] = Edit(db.snap[c], H)
      /\ writes.marks = Overlay(own[t].marks, mark)
      /\ writes.rejected = own[t].rejected
      /\ \A d \in Clients : d # c => writes.rows[d] = own[t].rows[d]
  <2>1. /\ Shape /\ c \in Clients /\ IsHistory(H)
        /\ mark \in Partial(Clients, Marks \ {None})
    BY <1>1, <1>4, <1>7
  <2> HIDE DEF c, j
  <2>2. \A d \in Clients : d # c => MarkedAs(t, c, H, mark).rows[d] = own[t].rows[d]
    <3>1. SUFFICES ASSUME NEW d \in Clients, d # c
                   PROVE  MarkedAs(t, c, H, mark).rows[d] = own[t].rows[d]
      OBVIOUS
    <3> QED BY ONLY <2>1, <3>1, MarkedIs, t \in Loads, d \in Clients
  <2>3. /\ MarkedAs(t, c, H, mark).rows[c] = Edit(db.snap[c], H)
        /\ MarkedAs(t, c, H, mark).marks = Overlay(own[t].marks, mark)
        /\ MarkedAs(t, c, H, mark).rejected = own[t].rejected
    BY ONLY <2>1, MarkedIs, t \in Loads
  <2> QED BY <2>2, <2>3
<1>10. /\ DOMAIN writes.marks = DOMAIN own[t].marks \cup DOMAIN mark
       /\ \A d \in DOMAIN own[t].marks \cup DOMAIN mark :
             writes.marks[d] = IF d \in DOMAIN mark THEN from - 1 ELSE own[t].marks[d]
  <2> DEFINE before == own[t].marks
  <2>1. /\ writes.marks = Overlay(before, mark)
        /\ \A d \in DOMAIN mark : mark[d] = from - 1
    BY <1>7, <1>9
  <2> HIDE DEF writes, before, from, c, j
  <2>2. /\ DOMAIN Overlay(before, mark) = DOMAIN before \cup DOMAIN mark
        /\ \A x \in DOMAIN before \cup DOMAIN mark :
               Overlay(before, mark)[x] = IF x \in DOMAIN mark THEN mark[x] ELSE before[x]
    BY OverlayIs
  <2> QED BY <2>1, <2>2 DEF before
<1> DEFINE left == MarkIn(writes, c)
<1>11. /\ left = IF Mark(t, c) = None THEN None ELSE from - 1
       /\ \A d : d # c => MarkIn(writes, d) = Mark(t, d)
  <2>1. CASE Mark(t, c) = None
    <3>1. DOMAIN mark = {}
      BY <1>7, <2>1
    <3> QED BY <1>5, <1>10, <2>1, <3>1 DEF MarkIn, Mark
  <2>2. CASE Mark(t, c) # None
    <3>1. DOMAIN mark = {c}
      BY <1>7, <2>2
    <3> QED BY <1>10, <2>2, <3>1 DEF MarkIn, Mark
  <2> QED BY <2>1, <2>2
<1>12. left \in Int /\ left < from
  BY <1>4, <1>11 DEF None
<1>13. work.events = events /\ work.pending = j.pending \ {c}
  <2>1. j = [events |-> j.events, pending |-> j.pending, left |-> j.left,
           orphans |-> j.orphans, item |-> j.item, seen |-> j.seen, keys |-> j.keys]
    BY ItemType
  <2> QED BY <2>1
<1>14. SoundHistory(c, H, left) /\ DOMAIN H = Below(G, from)
  <2> DEFINE m == Mark(t, c)
  <2>1. SoundHistory(c, G, m)
    BY <1>1, <1>4 DEF ViewSound
  <2>2. m \in Int
    <3>1. Marks \subseteq Int
      BY LogType DEF Marks, None
    <3> QED BY <1>1, <1>4, <3>1, MarkType
  <2>3. left = from - 1 \/ m <= left
    BY <1>11, <2>2
  <2> HIDE DEF left, m, G, from, c, j, writes, work
  <2> QED BY <1>4, <1>7, <1>8, <1>12, <2>1, <2>2, <2>3, SoundReset
<1> HIDE DEF writes, work
<1>15. /\ ResetAt(t, "next", work) = ResetBy(t) \cup {c}
       /\ Read(db.snap[c], writes.rows[c]) = H
       /\ \A d \in Clients : d # c => Read(db.snap[d], writes.rows[d]) = History(t, d)
  <2>1. ResetAt(t, "next", work) = ResetBy(t) \cup {c}
    BY <1>3, <1>4, <1>13 DEF ResetAt, ResetBy, Running, Failures
  <2>2. Read(db.snap[c], Edit(db.snap[c], H)) = H
    <3> DEFINE base == db.snap[c]
    <3>1. base \in Histories
      BY <1>1, <1>4, HistoryType
    <3> HIDE DEF base
    <3>2. Read(base, Edit(base, H)) = H
      BY <1>7, <3>1, EditType
    <3> QED BY <3>2 DEF base
  <2> QED BY <1>9, <2>1, <2>2, HistoryReads
<1>16. ASSUME NEW r \in DOMAIN db.snap[c]
       PROVE  r \in DOMAIN H \/ (Kind[t] = "reload" /\ r \in work.events)
  <2>1. r \in DOMAIN G
    BY <1>1, <1>3, <1>4 DEF ViewSound
  <2>2. r \in Int /\ (r > 0 => r \in LsnsOf(c))
    <3>1. SoundHistory(c, G, Mark(t, c))
      BY <1>1, <1>4 DEF ViewSound
    <3> QED BY <1>7, <2>1, <3>1 DEF SoundHistory, IsHistory
  <2>3. CASE r < from
    BY <1>14, <2>1, <2>3 DEF Below
  <2>4. CASE ~ (r < from)
    BY <1>3, <1>4, <1>13, <2>2, <2>4 DEF LsnsOf
  <2> QED BY <2>3, <2>4
<1>17. ASSUME c \in DOMAIN writes.marks PROVE MarkFits(t, c, work, writes)
  <2>1. c \in DOMAIN mark /\ writes.marks[c] = from - 1 /\ db.wm[c] # None
    BY <1>5, <1>7, <1>10, <1>17
  <2>2. from \in work.events
    BY <1>4, <1>13, LogType
  <2> QED BY <1>3, <2>1, <2>2 DEF MarkFits
<1>18. ASSUME NEW k \in LsnsOf(c) PROVE ChangeFits(t, k, "next", work, writes)
  <2>1. k \in Lsns /\ Wal[k].client = c /\ k \in Int
    BY <1>4 DEF LsnsOf
  <2>2. k <= left => k < from
    BY <1>4, <1>12, <2>1
  <2> QED BY <1>5, <1>9, <1>15, <2>1, <2>2 DEF ChangeFits
<1>19. ViewFits(t, "next", work, writes, locks[t])
  <2>1. /\ c \in Changing => SoundHistory(c, H, MarkIn(writes, c))
        /\ c \in Changing /\ ~ HoldsApply(t, c) => Touched(writes.rows[c]) = {}
        /\ c \notin Changing => QuietHistory(H)
    BY <1>3, <1>4, <1>14
  <2>2. /\ \A d \in Clients : d # c => /\ writes.rows[d] = own[t].rows[d]
                                       /\ MarkIn(writes, d) = Mark(t, d)
        /\ \A d \in DOMAIN writes.marks : d # c => /\ d \in DOMAIN own[t].marks
                                                   /\ writes.marks[d] = own[t].marks[d]
    <3>1. DOMAIN mark \subseteq {c}
      BY <1>7
    <3> QED BY <1>9, <1>10, <1>11, <3>1
  <2>3. /\ \A r \in job[t].events \ work.events : Wal[r].client = c
        /\ ResetBy(t) \subseteq ResetAt(t, "next", work)
    BY <1>3, <1>15
  <2> HIDE DEF c, j
  <2> QED BY <1>1, <1>4, <1>7, <1>9, <1>16, <1>17, <1>18, <2>1, <2>2, <2>3, WrittenFits
<1>20. WorkFits(t, "next", work, writes)
  <2>1. ASSUME NEW k \in Lsns, Wal[k].client \in ResetBy(t) \cup {c}, k >= ReloadFrom[Wal[k].client]
        PROVE  \/ k \in work.events
               \/ k \in DOMAIN Read(db.snap[Wal[k].client], writes.rows[Wal[k].client])
               \/ Quarantined(writes.rejected, k)
    <3>1. CASE Wal[k].client = c
      BY <1>13, <2>1, <3>1
    <3>2. CASE Wal[k].client # c
      BY <1>5, <1>9, <1>15, <2>1, <3>2, LogType
    <3> QED BY <3>1, <3>2
  <2>2. ASSUME NEW k \in work.events
        PROVE  /\ k > MarkIn(writes, Wal[k].client) /\ Wal[k].client \in ResetBy(t) \cup {c}
               /\ k >= ReloadFrom[Wal[k].client]
    <3>1. Wal[k].client = c /\ k >= from /\ k \in Int
      BY <1>4, <1>13
    <3> QED BY <1>4, <1>12, <1>13, <3>1
  <2>3. /\ DOMAIN writes.marks \subseteq ResetBy(t) \cup {c}
        /\ \A k \in Lsns : <<"stale_lsn", k>> \notin writes.rejected
    <3>1. DOMAIN mark \subseteq {c}
      BY <1>7
    <3> QED BY <1>5, <1>9, <1>10, <3>1
  <2> QED BY <1>3, <1>15, <2>1, <2>2, <2>3 DEF WorkFits
<1> QED BY <1>2, <1>19, <1>20, FitsHistory

\* What a load sees of a client that does not change is quiet.
LEMMA QuietRead ==
    ASSUME Shape, CommittedSound, NEW t \in Loads, ViewSound(t), NEW c \in Clients, c \notin Changing
    PROVE  QuietHistory(History(t, c))
<1> DEFINE base == db.snap[c]
           edit == own[t].rows[c]
<1>1. /\ base \in Histories /\ edit \in Edits /\ History(t, c) = Read(base, edit)
      /\ QuietHistory(base) /\ QuietHistory(edit.put)
  BY HistoryType DEF CommittedSound, ViewSound
<1> HIDE DEF base, edit
<1>2. /\ DOMAIN Read(base, edit) = (DOMAIN base \ edit.gone) \cup DOMAIN edit.put
      /\ \A l \in DOMAIN Read(base, edit) :
             Read(base, edit)[l] = IF l \in DOMAIN edit.put THEN edit.put[l] ELSE base[l]
  BY <1>1, ReadType
<1> QED BY <1>1, <1>2 DEF QuietHistory

\* What a seed or a fact load writes of a client that changes is nothing, and
\* of another a baseline or a stopgap, or it deletes stopgaps.
LEMMA OtherHistory ==
    ASSUME TypeInv, HistoryInv, NEW t \in Loads, Running(t), Kind[t] \in {"seed", "facts"},
           NEW c \in Clients, NEW H, IsHistory(H),
           c \in Changing => H = History(t, c), c \notin Changing => QuietHistory(H),
           NEW step, step \notin {"apply", "reset", "delete", "allocate", "insert"}, NEW work,
           Moved(t, step, work, Writing(t, c, H), locks[t]), UNCHANGED db,
           Kind[t] = "seed" => work.pending \subseteq job[t].pending,
           step = "repoint" => work.item \notin Changing
    PROVE  HistoryInv'
<1> DEFINE writes == Writing(t, c, H)
<1>1. /\ Shape /\ CommittedSound /\ ViewSound(t) /\ WorkSound(t) /\ at[t] # "committed"
      /\ Kind[t] # "reload" /\ Kind[t] # "apply"
  BY DEF TypeInv, HistoryInv, Running
<1>2. /\ writes.rows[c] = Edit(db.snap[c], H)
      /\ \A d \in Clients : d # c => writes.rows[d] = own[t].rows[d]
      /\ writes.marks = own[t].marks /\ writes.rejected = own[t].rejected
  BY <1>1, WritingIs
<1> HIDE DEF writes
<1>3. \A d : MarkIn(writes, d) = Mark(t, d) /\ MarkIn(own[t], d) = Mark(t, d)
  BY <1>2 DEF MarkIn, Mark
<1>4. ASSUME c \in Changing, ~ HoldsApply(t, c) PROVE Touched(writes.rows[c]) = {}
  <2> DEFINE base == db.snap[c]
             edit == own[t].rows[c]
  <2>1. /\ base \in Histories /\ edit \in Edits /\ H = Read(base, edit) /\ Touched(edit) = {}
    BY <1>1, <1>4, HistoryType DEF ViewSound
  <2> HIDE DEF base, edit
  <2>2. Touched(Edit(base, H)) \subseteq Touched(edit)
    <3>1. \A l \in Touched(Edit(base, H)) : l \in Touched(edit) \/ Differs(H, H, l)
      BY <2>1, EditTouches
    <3> QED BY <3>1 DEF Differs
  <2> QED BY <1>2, <2>1, <2>2 DEF base
<1>5. /\ c \in Changing => SoundHistory(c, H, MarkIn(writes, c))
      /\ c \in Changing => \A r \in DOMAIN db.snap[c] : r \in DOMAIN H
  BY <1>1, <1>3 DEF ViewSound
<1>6. /\ Read(db.snap[c], writes.rows[c]) = H
      /\ Read(db.snap[c], own[t].rows[c]) = History(t, c)
  <2> DEFINE base == db.snap[c]
  <2>1. base \in Histories
    BY <1>1, HistoryType
  <2> HIDE DEF base
  <2>2. Read(base, Edit(base, H)) = H
    BY <2>1, EditType
  <2> QED BY <1>2, <2>2, HistoryReads DEF base
<1>7. ASSUME c \in DOMAIN writes.marks PROVE MarkFits(t, c, work, writes)
  <2>1. MarkFits(t, c, job[t], own[t])
    BY <1>1, <1>2, <1>7 DEF ViewSound
  <2>2. own[t].marks[c] \in LsnsOf(c)
    BY <1>1, <2>1 DEF MarkFits
  <2>3. c \in Changing
    BY <2>2 DEF LsnsOf, Changing
  <2> QED BY <1>1, <1>2, <1>6, <2>1, <2>3 DEF MarkFits
<1>8. ASSUME NEW l \in LsnsOf(c) PROVE ChangeFits(t, l, step, work, writes)
  <2>1. l \in Lsns /\ Wal[l].client = c /\ c \in Changing
    BY DEF LsnsOf, Changing
  <2>2. ChangeFits(t, l, at[t], job[t], own[t]) /\ ResetAt(t, at[t], job[t]) = {}
    BY <1>1, <2>1 DEF ViewSound, ResetAt
  <2> QED BY <1>2, <1>3, <1>6, <2>1, <2>2 DEF ChangeFits
<1>9. ViewFits(t, step, work, writes, locks[t])
  <2>1. ResetBy(t) \subseteq ResetAt(t, step, work)
    BY <1>1 DEF ResetBy, ResetAt
  <2> QED BY <1>1, <1>2, <1>3, <1>4, <1>5, <1>7, <1>8, <2>1, WrittenFits
<1>10. WorkFits(t, step, work, writes)
  BY <1>1 DEF WorkFits, WorkSound
<1> QED BY <1>1, <1>9, <1>10, FitsHistory DEF writes

\* A baseline is inserted, with a client that changes only where there is one.
LEMMA BaselineHistory ==
    ASSUME TypeInv, HistoryInv, NEW t \in Loads, InsertBaseline(t)
    PROVE  HistoryInv'
<1> DEFINE j == job[t]
           c == j.item
           G == History(t, c)
           H == WithBaseline(t)
           row == BaselineRow(IF j.orphans THEN UnknownAttrs ELSE ProfileAttrs)
           passed == Passed(t, c)
           repointing == [j EXCEPT !.keys = Stopgaps(G)]
<1>1. /\ Shape /\ CommittedSound /\ ViewSound(t) /\ WorkSound(t)
      /\ InOrder(t, at[t], j, own[t], locks[t])
  BY ItemType DEF TypeInv, HistoryInv
<1>2. /\ at[t] = "baseline" /\ UNCHANGED db
      /\ \/ Moved(t, "next", passed, Writing(t, c, H), locks[t])
         \/ /\ Stopgaps(G) # {}
            /\ Moved(t, "repoint", repointing, Writing(t, c, H), locks[t])
  BY <1>1, BaselineMoves
<1>3. c \in Clients /\ c \in j.pending /\ Kind[t] = "seed" /\ Running(t)
  BY <1>1, <1>2, ItemType DEF InOrder, Running, Failures
<1>4. /\ IsHistory(H) /\ IsHistory(G) /\ DOMAIN H = DOMAIN G \cup {0}
      /\ (\A l \in DOMAIN G : H[l] = G[l]) /\ H = Insert(G, 0, row)
  BY <1>1, <1>3, WithBaselineType, HistoryType DEF WithBaseline
<1>5. ASSUME c \in Changing PROVE H = G /\ Stopgaps(G) = {}
  <2>1. SoundHistory(c, G, Mark(t, c)) /\ c \in Seeded
    BY <1>1, <1>3, <1>5 DEF ViewSound, WorkSound
  <2>2. 0 \in DOMAIN G /\ \A l \in DOMAIN G : l >= 0 /\ l \in Int
    BY <1>4, <2>1 DEF SoundHistory, IsHistory
  <2>3. Stopgaps(G) = {}
    BY <2>2 DEF Stopgaps
  <2>4. DOMAIN H = DOMAIN G
    BY <1>4, <2>2
  <2>5. H = [l \in DOMAIN H |-> H[l]] /\ G = [l \in DOMAIN G |-> G[l]]
    BY <1>4 DEF IsHistory
  <2>6. [l \in DOMAIN H |-> H[l]] = [l \in DOMAIN G |-> G[l]]
    BY <1>4, <2>4
  <2> HIDE DEF H, G
  <2> QED BY <2>3, <2>5, <2>6
<1>6. ASSUME c \notin Changing PROVE QuietHistory(H)
  <2>1. QuietHistory(G)
    BY <1>1, <1>3, <1>6, QuietRead
  <2>2. row.is_current /\ row.valid_from = Epoch /\ row.valid_to = Forever
    BY DEF BaselineRow, Row
  <2>3. 0 \notin DOMAIN G => H[0] = row
    BY <1>4 DEF Insert
  <2> HIDE DEF H, G, row
  <2> QED BY <1>4, <2>1, <2>2, <2>3 DEF QuietHistory
<1>7. /\ passed.pending = j.pending \ {c}
      /\ repointing.pending = j.pending /\ repointing.item = c
  <2>1. j = [events |-> j.events, pending |-> j.pending, left |-> j.left,
           orphans |-> j.orphans, item |-> j.item, seen |-> j.seen, keys |-> j.keys]
    BY ItemType
  <2> QED BY <2>1 DEF Passed
<1>8. PICK step \in {"next", "repoint"} : \E work :
          /\ Moved(t, step, work, Writing(t, c, H), locks[t])
          /\ work.pending \subseteq j.pending
          /\ step = "repoint" => work.item \notin Changing
  <2>1. Stopgaps(G) # {} => c \notin Changing
    BY <1>5
  <2> HIDE DEF passed, repointing, H, G, c, j
  <2> QED BY <1>2, <1>7, <2>1
<1>9. PICK work : /\ Moved(t, step, work, Writing(t, c, H), locks[t])
                  /\ work.pending \subseteq j.pending
                  /\ step = "repoint" => work.item \notin Changing
  BY <1>8
<1>10. /\ c \in Changing => H = History(t, c)
       /\ c \notin Changing => QuietHistory(H)
       /\ step \notin {"apply", "reset", "delete", "allocate", "insert"}
       /\ Kind[t] \in {"seed", "facts"}
  BY <1>3, <1>5, <1>6
<1> HIDE DEF H, c, passed, repointing
<1> QED BY <1>2, <1>3, <1>4, <1>9, <1>10, OtherHistory

\* Stopgaps are deleted, of a client that does not change.
LEMMA DeletedHistory ==
    ASSUME TypeInv, HistoryInv, NEW t \in Loads, Deleted(t)
    PROVE  HistoryInv'
<1> DEFINE j == job[t]
           c == j.item
           G == History(t, c)
           H == Delete(G, j.keys)
           work == Passed(t, c)
           step == "next"
<1>1. /\ Shape /\ CommittedSound /\ ViewSound(t) /\ WorkSound(t)
      /\ InOrder(t, at[t], j, own[t], locks[t])
  BY ItemType DEF TypeInv, HistoryInv
<1>2. /\ at[t] = "delete" /\ UNCHANGED db
      /\ Moved(t, step, work, Writing(t, c, H), locks[t])
  BY DEF Deleted
<1>3. c \in Clients /\ c \notin Changing /\ Kind[t] = "seed" /\ Running(t)
  BY <1>1, <1>2, ItemType DEF InOrder, WorkSound, Running, Failures
<1>4. /\ IsHistory(H) /\ DOMAIN H = DOMAIN G \ j.keys
      /\ \A l \in DOMAIN G \ j.keys : H[l] = G[l]
  BY <1>1, <1>3, DeletedType
<1>5. QuietHistory(H)
  <2>1. QuietHistory(G)
    BY <1>1, <1>3, QuietRead
  <2> HIDE DEF H, G
  <2> QED BY <1>4, <2>1 DEF QuietHistory
<1>6. work.pending \subseteq j.pending
  <2>1. j = [events |-> j.events, pending |-> j.pending, left |-> j.left,
           orphans |-> j.orphans, item |-> j.item, seen |-> j.seen, keys |-> j.keys]
    BY ItemType
  <2> QED BY <2>1 DEF Passed
<1>7. /\ step \notin {"apply", "reset", "delete", "allocate", "insert"} /\ step # "repoint"
      /\ Kind[t] \in {"seed", "facts"}
  BY <1>3
<1> HIDE DEF H, c, work, step
<1> QED BY <1>2, <1>3, <1>4, <1>5, <1>6, <1>7, OtherHistory

\* A stopgap is inserted, of a client that does not change.
LEMMA StopgapHistory ==
    ASSUME TypeInv, LockInv, KnownInv, HistoryInv, NEW t \in Loads, StopgapInserted(t)
    PROVE  HistoryInv'
<1> DEFINE j == job[t]
           c == FactRow[j.item].client
           G == HistoryOfItem(t)
           row == StopgapRow(FactRow[j.item].event_ts)
           step == "pin"
<1>1. /\ Shape /\ CommittedSound /\ ViewSound(t) /\ WorkSound(t) /\ StopgapsLocked(t)
      /\ InOrder(t, at[t], j, own[t], locks[t]) /\ StaysKnown(t)
  BY ItemType DEF TypeInv, HistoryInv, LockInv, KnownInv
<1>2. at[t] = "insert" /\ UNCHANGED db
  BY DEF StopgapInserted
<1>3. PICK lsn \in j.keys : \E l :
          Moved(t, step, [j EXCEPT !.keys = {l}], Writing(t, c, WithStopgap(t, lsn)), locks[t])
  BY DEF StopgapInserted
<1>4. PICK l :
          Moved(t, step, [j EXCEPT !.keys = {l}], Writing(t, c, WithStopgap(t, lsn)), locks[t])
  BY <1>3
<1> DEFINE H == WithStopgap(t, lsn)
           work == [j EXCEPT !.keys = {l}]
<1>5. j.item \in Facts /\ lsn \in Int
  BY <1>2, ItemType
<1>6. c \in Clients /\ c \notin Changing /\ Kind[t] = "facts" /\ Running(t)
  <2>1. c \in Clients /\ c \notin Changing
    BY <1>1, <1>2, <1>5, LogType DEF WorkSound
  <2> QED BY <1>1, <1>2, <2>1 DEF InOrder, Running, Failures
<1>7. lsn < 0 /\ lsn \notin DOMAIN G /\ G = History(t, c)
  BY <1>1, <1>2 DEF StopgapsLocked, StaysKnown, HistoryOfItem
<1>8. /\ IsHistory(H) /\ DOMAIN H = DOMAIN G \cup {lsn} /\ H[lsn] = row
      /\ \A k \in DOMAIN G : H[k] = G[k]
  BY <1>1, <1>5, <1>7, WithStopgapType
<1>9. QuietHistory(H)
  <2>1. QuietHistory(G)
    BY <1>1, <1>6, <1>7, QuietRead
  <2>2. ~ row.is_current
    BY DEF StopgapRow, Row
  <2> HIDE DEF H, G, row
  <2> QED BY <1>5, <1>7, <1>8, <2>1, <2>2 DEF QuietHistory
<1>10. /\ step \notin {"apply", "reset", "delete", "allocate", "insert"} /\ step # "repoint"
       /\ Kind[t] # "seed"
       /\ Kind[t] \in {"seed", "facts"} /\ Moved(t, step, work, Writing(t, c, H), locks[t])
  BY <1>4, <1>6
<1> HIDE DEF H, c, work, step
<1> QED BY <1>2, <1>6, <1>8, <1>9, <1>10, OtherHistory

\* A load that commits has kept what was committed of the clients that change,
\* and lowers no watermark.
LEMMA MarksRise ==
    ASSUME TypeInv, HistoryInv, NEW t \in Loads, Commit(t), NEW c \in Clients
    PROVE  /\ c \in Changing => DOMAIN db.snap[c] \subseteq DOMAIN History(t, c)
           /\ db.wm[c] <= Mark(t, c)
           /\ Mark(t, c) \in {None} \cup (LsnsOf(c) \cap DOMAIN History(t, c))
           /\ Mark(t, c) \in Int /\ db.wm[c] \in Int
<1> DEFINE H == History(t, c)
           m == Mark(t, c)
           w == db.wm[c]
<1>1. /\ Shape /\ CommittedSound /\ ViewSound(t) /\ WorkSound(t)
      /\ at[t] = "next" /\ job[t].events = {}
  BY CommitMoves DEF TypeInv, HistoryInv
<1>2. c \in Changing => DOMAIN db.snap[c] \subseteq DOMAIN H
  BY <1>1 DEF ViewSound
<1>3. /\ w \in Int /\ m \in Int /\ w >= -1 /\ m >= -1
  <2>1. Marks \subseteq Int /\ \A k \in Marks : k >= -1
    BY LogType DEF Marks, None
  <2> QED BY <1>1, <2>1, LoadType, MarkType DEF Tables
<1>4. w = None \/ (w \in LsnsOf(c) /\ w \in DOMAIN db.snap[c] /\ c \in Changing)
  BY <1>1 DEF CommittedSound, LsnsOf, Changing
<1>5. w = None \/ (w \in LsnsOf(c) \cap DOMAIN H /\ w <= m)
  <2>1. SUFFICES ASSUME w # None PROVE w \in LsnsOf(c) \cap DOMAIN H /\ w <= m
    OBVIOUS
  <2>2. w \in LsnsOf(c) /\ w \in DOMAIN H /\ c \in Changing /\ w > 0
    <3>1. w \in Lsns
      BY <1>4, <2>1 DEF LsnsOf
    <3> QED BY <1>2, <1>4, <2>1, <3>1, LogType
  <2>3. SoundHistory(c, H, m)
    BY <1>1, <2>2 DEF ViewSound
  <2> HIDE DEF w, H, m
  <2> QED BY <2>2, <2>3 DEF SoundHistory
<1>6. CASE c \notin DOMAIN own[t].marks
  <2>1. m = w
    BY <1>6 DEF Mark
  <2> HIDE DEF w, H, m
  <2>2. w <= m /\ m \in {None} \cup (LsnsOf(c) \cap DOMAIN H)
    BY <1>3, <1>5, <2>1
  <2> QED BY <1>2, <1>3, <2>2 DEF w, H, m
<1>7. CASE c \in DOMAIN own[t].marks
  <2>1. MarkFits(t, c, job[t], own[t]) /\ own[t].marks[c] = m
    BY <1>1, <1>7 DEF ViewSound, Mark
  <2>2. Read(db.snap[c], own[t].rows[c]) = H
    BY HistoryReads
  <2>3. m \in LsnsOf(c) \cap DOMAIN H
    <3>1. SUFFICES ASSUME db.wm[c] # None, DOMAIN H = {} PROVE FALSE
      BY <1>1, <2>1, <2>2 DEF MarkFits
    <3> QED BY <1>5, <3>1
  <2> HIDE DEF w, H, m
  <2>4. w <= m
    BY <1>3, <1>5 DEF None
  <2> QED BY <1>2, <1>3, <2>3, <2>4 DEF w, H, m
<1> QED BY <1>6, <1>7

\* What is excused stays so when a load commits, and what a reload has left
\* out of its replay is.
LEMMA CommitExcuses ==
    ASSUME Shape, NEW t \in Loads, MovedAside(t), at[t] = "next"
    PROVE  /\ \A q, r, l : Excused(q, l) /\ q \subseteq r => Excused(r, l)'
           /\ \A l \in Lsns : Wal[l].client \in ResetBy(t) /\ l < ReloadFrom[Wal[l].client] =>
                  NotReplayed(l)'
<1>1. /\ at'[t] = "committed"
      /\ \A u \in Loads : at[u] = "committed" => at'[u] = "committed"
  BY DEF MovedAside
<1>2. \A l : NotReplayed(l) => NotReplayed(l)'
  BY <1>1 DEF NotReplayed
<1>3. \A q, r, l : Quarantined(q, l) /\ q \subseteq r => Quarantined(r, l)
  BY DEF Quarantined
<1>4. \A l \in Lsns : Wal[l].client \in ResetBy(t) /\ l < ReloadFrom[Wal[l].client] =>
          NotReplayed(l)'
  BY <1>1 DEF NotReplayed, ResetBy, ResetAt
<1> QED BY <1>2, <1>3, <1>4 DEF Excused, Overtaken, LsnsOf

\* What is committed is sound then.
LEMMA CommitSound ==
    ASSUME TypeInv, HistoryInv, NEW t \in Loads, Commit(t)
    PROVE  CommittedSound'
<1>1. /\ Shape /\ CommittedSound /\ ViewSound(t)
      /\ at[t] = "next" /\ MovedAside(t)
      /\ db'.snap = [c \in Clients |-> History(t, c)]
      /\ db'.wm = [c \in Clients |-> Mark(t, c)]
      /\ db'.rejected = db.rejected \cup own[t].rejected
  BY CommitMoves DEF TypeInv, HistoryInv
<1>2. \A c \in Clients : db'.snap[c] = History(t, c) /\ db'.wm[c] = Mark(t, c)
  BY <1>1
<1>3. ASSUME NEW c \in Clients
      PROVE  /\ c \in Changing => SoundHistory(c, db'.snap[c], db'.wm[c])
             /\ c \notin Changing => QuietHistory(db'.snap[c])
             /\ db'.wm[c] \in {None} \cup (LsnsOf(c) \cap DOMAIN db'.snap[c])
  BY <1>1, <1>2, MarksRise, QuietRead, ZenonT(60) DEF ViewSound
<1>4. ASSUME NEW l \in Lsns
      PROVE  /\ <<"stale_lsn", l>> \in db'.rejected => l <= db'.wm[Wal[l].client]
             /\ l <= db'.wm[Wal[l].client] =>
                   l \in DOMAIN db'.snap[Wal[l].client] \/ Excused(db.rejected, l)'
  <2> DEFINE c == Wal[l].client
             w == db.wm[c]
             m == Mark(t, c)
  <2>1. /\ c \in Clients /\ l \in Int
        /\ MarkIn(own[t], c) = m /\ Read(db.snap[c], own[t].rows[c]) = History(t, c)
    BY LogType, HistoryReads DEF MarkIn, Mark
  <2>2. ChangeFits(t, l, at[t], job[t], own[t])
    BY <1>1 DEF ViewSound
  <2>3. w <= m /\ w \in Int /\ m \in Int
    BY <2>1, MarksRise
  <2>4. <<"stale_lsn", l>> \in db.rejected => l <= w
    BY <1>1 DEF CommittedSound
  <2>5. <<"stale_lsn", l>> \in own[t].rejected => l <= m
    BY <2>1, <2>2 DEF ChangeFits
  <2>6. <<"stale_lsn", l>> \in db'.rejected => l <= m
    <3> HIDE DEF w, m
    <3> QED BY <1>1, <2>1, <2>3, <2>4, <2>5
  <2>7. ASSUME l <= m PROVE l \in DOMAIN History(t, c) \/ Excused(db.rejected, l)'
    <3>1. \/ l \in DOMAIN History(t, c)
          \/ Excused(db.rejected \cup own[t].rejected, l)
          \/ c \in ResetBy(t) /\ l < ReloadFrom[c]
      BY <2>1, <2>2, <2>7 DEF ChangeFits, ResetBy
    <3>2. Excused(db.rejected \cup own[t].rejected, l) => Excused(db.rejected, l)'
      <4> DEFINE q == db.rejected \cup own[t].rejected
      <4>1. q \subseteq db'.rejected
        BY <1>1
      <4> HIDE DEF q
      <4>2. Excused(q, l) => Excused(db.rejected, l)'
        <5>1. \A r, s : Excused(r, l) /\ r \subseteq s => Excused(s, l)'
          BY <1>1, CommitExcuses
        <5>2. Excused(q, l) => Overtaken(l)' \/ NotReplayed(l)' \/ Quarantined(db'.rejected, l)
          BY <4>1, <5>1 DEF Excused, Quarantined
        <5> QED BY <5>2 DEF Excused, Quarantined
      <4> QED BY <4>2 DEF q
    <3>3. c \in ResetBy(t) /\ l < ReloadFrom[c] => NotReplayed(l)'
      BY <1>1, CommitExcuses
    <3> HIDE DEF c
    <3> QED BY <3>1, <3>2, <3>3 DEF Excused
  <2> HIDE DEF w, m
  <2> QED BY <1>2, <2>1, <2>6, <2>7 DEF m
<1> QED BY <1>3, <1>4 DEF CommittedSound

\* So is what the load sees when it has committed,
LEMMA CommitterHistory ==
    ASSUME TypeInv, HistoryInv, NEW t \in Loads, Commit(t), CommittedSound'
    PROVE  ViewSound(t)' /\ WorkSound(t)'
<1>1. /\ MovedAside(t) /\ db' \in Tables
      /\ at'[t] = "committed" /\ job'[t] = NoWork /\ own'[t] = NoWrites /\ locks'[t] = {}
  BY CommitMoves DEF TypeInv, MovedAside
<1>2. ASSUME NEW c \in Clients
      PROVE  /\ History(t, c)' = db'.snap[c] /\ Mark(t, c)' = db'.wm[c]
             /\ Touched(NoWrites.rows[c]) = {}
  <2> DEFINE base == db'.snap[c]
             edit == NoWrites.rows[c]
  <2>1. base \in Histories /\ edit \in Edits /\ Touched(edit) = {}
    BY <1>1, NothingType DEF Tables, Writes, Touched
  <2>2. Read(base, edit) = base
    <3> HIDE DEF base, edit
    <3> QED BY <2>1, ReadNothing
  <2>3. History(t, c)' = Read(base, edit)
    BY <1>1 DEF History, Read
  <2>4. Mark(t, c)' = db'.wm[c]
    BY <1>1, NothingType DEF Mark
  <2> QED BY <2>1, <2>2, <2>3, <2>4
<1>3. /\ NoWrites.rejected = {} /\ DOMAIN NoWrites.marks = {}
      /\ \A c \in Clients : DOMAIN NoWrites.rows[c].put = {}
  BY NothingType
<1>4. ASSUME NEW l \in Lsns PROVE ChangeFits(t, l, at[t], job[t], own[t])'
  <2> DEFINE c == Wal[l].client
  <2>1. c \in Clients
    BY LogType
  <2>2. History(t, c)' = Read(db.snap[c], own[t].rows[c])' /\ Mark(t, c)' = MarkIn(own[t], c)'
    BY DEF History, Read, Mark, MarkIn
  <2>3. Read(db.snap[c], own[t].rows[c])' = db'.snap[c] /\ MarkIn(own[t], c)' = db'.wm[c]
    BY <1>2, <2>1, <2>2
  <2>4. l <= db'.wm[c] => l \in DOMAIN db'.snap[c] \/ Excused(db.rejected, l)'
    BY DEF CommittedSound
  <2>5. own'[t].rejected = {} /\ db'.rejected \cup own'[t].rejected = db'.rejected
    BY <1>1, <1>3
  <2> HIDE DEF c
  <2> QED BY ONLY <2>3, <2>4, <2>5 DEF ChangeFits, c, Excused, Quarantined
<1>5. ViewSound(t)'
  BY <1>1, <1>2, <1>3, <1>4 DEF ViewSound, CommittedSound, QuietHistory
<1>6. WorkSound(t)'
  BY <1>1, NothingType DEF WorkSound, Running, Failures, ResetBy, ResetAt
<1> QED BY <1>5, <1>6

\* and what the others see of a client that changes: it is theirs, by its lock,
\* or what is committed now.
LEMMA OthersSeeCommit ==
    ASSUME TypeInv, LockInv, HistoryInv, NEW t \in Loads, Commit(t),
           NEW u \in Loads \ {t}, NEW c \in Clients, c \in Changing
    PROVE  /\ DOMAIN History(u, c) \subseteq DOMAIN History(u, c)'
           /\ Mark(u, c) <= Mark(u, c)' /\ Mark(u, c)' \in Int /\ Mark(u, c) \in Int
           /\ HoldsApply(u, c) => /\ db'.wm[c] = db.wm[c] /\ db'.snap[c] = db.snap[c]
                                  /\ History(u, c)' = History(u, c) /\ Mark(u, c)' = Mark(u, c)
           /\ ~ HoldsApply(u, c) => /\ History(u, c)' = db'.snap[c] /\ Mark(u, c)' = db'.wm[c]
                                    /\ Touched(own[u].rows[c]) = {}
                                    /\ c \notin DOMAIN own[u].marks
<1>1. /\ Shape /\ ViewSound(t) /\ ViewSound(u) /\ MarksLocked(t) /\ MarksLocked(u)
      /\ db' \in Tables
      /\ db'.snap[c] = History(t, c) /\ db'.wm[c] = Mark(t, c)
      /\ own'[u] = own[u] /\ locks'[u] = locks[u]
  <2>1. Shape /\ ViewSound(t) /\ ViewSound(u) /\ MarksLocked(t) /\ MarksLocked(u)
    BY DEF TypeInv, HistoryInv, LockInv
  <2>2. /\ db' \in Tables /\ MovedAside(t)
        /\ db'.snap = [d \in Clients |-> History(t, d)]
        /\ db'.wm = [d \in Clients |-> Mark(t, d)]
    BY <2>1, CommitMoves
  <2> QED BY <2>1, <2>2 DEF MovedAside
<1>2. /\ DOMAIN db.snap[c] \subseteq DOMAIN History(t, c)
      /\ db.wm[c] <= Mark(t, c) /\ Mark(t, c) \in Int /\ db.wm[c] \in Int
  BY MarksRise
<1>3. CASE HoldsApply(u, c)
  <2>1. ~ HoldsApply(t, c)
    BY <1>3 DEF LockInv, Exclusive
  <2>2. db'.wm[c] = db.wm[c] /\ db'.snap[c] = db.snap[c]
    BY <1>1, <2>1, Unlocked
  <2>3. History(u, c)' = History(u, c) /\ Mark(u, c)' = Mark(u, c)
    BY <1>1, <2>2 DEF Mark, History
  <2>4. Mark(u, c) \in Int
    <3>1. Marks \subseteq Int
      BY LogType DEF Marks, None
    <3> QED BY <1>1, <3>1, MarkType
  <2> QED BY <1>3, <2>2, <2>3, <2>4
<1>4. CASE ~ HoldsApply(u, c)
  <2>1. History(u, c) = db.snap[c] /\ Mark(u, c) = db.wm[c]
    BY <1>1, <1>4, Unlocked
  <2> DEFINE base == db'.snap[c]
             edit == own[u].rows[c]
  <2>2. /\ base \in Histories /\ edit \in Edits /\ Touched(edit) = {}
        /\ c \notin DOMAIN own[u].marks
    <3>1. edit \in Edits
      BY <1>1, LoadType DEF Writes
    <3> QED BY <1>1, <1>4, <3>1 DEF ViewSound, MarksLocked, Tables
  <2>3. Read(base, edit) = base
    <3> HIDE DEF base, edit
    <3> QED BY <2>2, ReadNothing
  <2>4. History(u, c)' = base /\ Mark(u, c)' = db'.wm[c]
    BY <1>1, <2>2, <2>3 DEF History, Read, Mark
  <2> QED BY <1>1, <1>2, <1>4, <2>1, <2>2, <2>4
<1> QED BY <1>3, <1>4

\* What another load sees then is sound,
LEMMA CommitView ==
    ASSUME TypeInv, LockInv, HistoryInv, NEW t \in Loads, Commit(t), CommittedSound',
           NEW u \in Loads \ {t}
    PROVE  ViewSound(u)'
<1>1. /\ Shape /\ CommittedSound /\ ViewSound(u) /\ WorkSound(u) /\ MarksLocked(u)
      /\ at'[u] = at[u] /\ own'[u] = own[u] /\ locks'[u] = locks[u]
      /\ job'[u].events = job[u].events /\ job'[u].pending = job[u].pending
      /\ db'.rejected = db.rejected \cup own[t].rejected
      /\ at[t] = "next" /\ MovedAside(t)
  <2>1. Shape /\ CommittedSound /\ ViewSound(u) /\ WorkSound(u) /\ MarksLocked(u)
    BY DEF TypeInv, HistoryInv, LockInv
  <2>2. /\ db'.rejected = db.rejected \cup own[t].rejected
        /\ at[t] = "next" /\ MovedAside(t)
    BY <2>1, CommitMoves
  <2> QED BY <2>1, <2>2 DEF MovedAside, SameWork
<1>2. ASSUME NEW c \in Clients
      PROVE  /\ c \in Changing => SoundHistory(c, History(u, c)', Mark(u, c)')
             /\ c \in Changing /\ ~ HoldsApply(u, c) => Touched(own[u].rows[c]) = {}
             /\ c \notin Changing => QuietHistory(own[u].rows[c].put)
             /\ c \in Changing => \A r \in DOMAIN db'.snap[c] :
                   r \in DOMAIN History(u, c)' \/ (Kind[u] = "reload" /\ r \in job[u].events)
  <2>1. CASE c \notin Changing
    BY <1>1, <2>1 DEF ViewSound
  <2>2. CASE c \in Changing /\ HoldsApply(u, c)
    BY <1>1, <2>2, OthersSeeCommit DEF ViewSound
  <2>3. CASE c \in Changing /\ ~ HoldsApply(u, c)
    BY <2>3, OthersSeeCommit DEF CommittedSound
  <2> QED BY <2>1, <2>2, <2>3
<1>3. ASSUME NEW c \in DOMAIN own[u].marks PROVE MarkFits(u, c, job[u], own[u])'
  <2>1. c \in Clients /\ HoldsApply(u, c) /\ MarkFits(u, c, job[u], own[u])
    <3>1. own[u].marks \in Partial(Clients, Marks \ {None})
      BY <1>1, LoadType DEF Writes
    <3>2. DOMAIN own[u].marks \subseteq Clients
      BY <3>1, PartialIs
    <3> QED BY <1>1, <3>2 DEF MarksLocked, ViewSound
  <2>2. c \in Changing
    <3>1. CASE Kind[u] = "reload"
      <4>1. c \in DOMAIN ReloadFrom
        BY <1>1, <3>1 DEF WorkSound, ResetBy, ResetAt
      <4> QED BY <4>1, LoadsAssumption DEF Changing
    <3>2. CASE Kind[u] # "reload"
      BY <2>1, <3>2 DEF MarkFits, LsnsOf, Changing
    <3> QED BY <3>1, <3>2
  <2>3. db'.wm[c] = db.wm[c] /\ db'.snap[c] = db.snap[c]
    BY <2>1, <2>2, OthersSeeCommit
  <2> QED BY <1>1, <2>1, <2>3 DEF MarkFits, Read
<1>4. ASSUME NEW l \in Lsns PROVE ChangeFits(u, l, at[u], job[u], own[u])'
  <2> DEFINE c == Wal[l].client
             q == db.rejected \cup own[u].rejected
  <2>1. c \in Clients /\ c \in Changing /\ ChangeFits(u, l, at[u], job[u], own[u])
    BY <1>1, LogType DEF Changing, ViewSound
  <2>2. /\ History(u, c) = Read(db.snap[c], own[u].rows[c]) /\ Mark(u, c) = MarkIn(own[u], c)
        /\ History(u, c)' = Read(db.snap[c], own[u].rows[c])' /\ Mark(u, c)' = MarkIn(own[u], c)'
        /\ ResetAt(u, at[u], job[u])' = ResetAt(u, at[u], job[u])
    BY <1>1 DEF History, Read, Mark, MarkIn, ResetAt
  <2>3. q \subseteq db'.rejected \cup own[u].rejected
    BY <1>1
  <2>4. Excused(q, l) => Excused(db.rejected \cup own[u].rejected, l)'
    <3>1. \A r, s : Excused(r, l) /\ r \subseteq s => Excused(s, l)'
      BY <1>1, CommitExcuses
    <3> HIDE DEF q
    <3>2. Excused(q, l) => \/ Overtaken(l)' \/ NotReplayed(l)'
                           \/ Quarantined(db'.rejected \cup own[u].rejected, l)
      BY <2>3, <3>1 DEF Excused, Quarantined
    <3> QED BY <1>1, <3>2 DEF Excused, Quarantined
  <2>5. CASE HoldsApply(u, c)
    <3>1. History(u, c)' = History(u, c) /\ Mark(u, c)' = Mark(u, c)
      BY <2>1, <2>5, OthersSeeCommit
    <3> QED BY <1>1, <2>1, <2>2, <2>4, <3>1 DEF ChangeFits
  <2>6. CASE ~ HoldsApply(u, c)
    <3>1. /\ History(u, c)' = db'.snap[c] /\ Mark(u, c)' = db'.wm[c]
          /\ Mark(u, c) <= Mark(u, c)' /\ Mark(u, c)' \in Int /\ Mark(u, c) \in Int
      BY <2>1, <2>6, OthersSeeCommit
    <3>2. l <= db'.wm[c] => l \in DOMAIN db'.snap[c] \/ Excused(db.rejected, l)'
      BY DEF CommittedSound
    <3>3. Excused(db.rejected, l)' => Excused(db.rejected \cup own[u].rejected, l)'
      BY DEF Excused, Quarantined
    <3>4. <<"stale_lsn", l>> \in own[u].rejected => l <= Mark(u, c)'
      <4>1. <<"stale_lsn", l>> \in own[u].rejected => l <= Mark(u, c)
        BY <2>1, <2>2 DEF ChangeFits
      <4> DEFINE m == Mark(u, c)
                 n == db'.wm[c]
      <4>2. l \in Int
        BY LogType
      <4>3. Mark(u, c)' = n /\ m <= n /\ m \in Int /\ n \in Int
        BY <3>1
      <4> HIDE DEF m, n
      <4>4. l <= m => l <= n
        BY <4>2, <4>3
      <4> QED BY <4>1, <4>3, <4>4 DEF m
    <3> QED BY <1>1, <2>2, <3>1, <3>2, <3>3, <3>4 DEF ChangeFits
  <2> QED BY <2>5, <2>6
<1> QED BY <1>1, <1>2, <1>3, <1>4 DEF ViewSound, HoldsApply

\* and so is its work.
LEMMA CommitWork ==
    ASSUME TypeInv, LockInv, HistoryInv, NEW t \in Loads, Commit(t), NEW u \in Loads \ {t}
    PROVE  WorkSound(u)'
<1>1. /\ Shape /\ ViewSound(u) /\ WorkSound(u) /\ MarksLocked(u)
      /\ at'[u] = at[u] /\ own'[u] = own[u] /\ locks'[u] = locks[u]
      /\ job'[u].events = job[u].events /\ job'[u].pending = job[u].pending
      /\ job'[u].item = job[u].item
      /\ at[u] = "reset" => job'[u].keys = job[u].keys
  <2>1. at[u] = "reset" => KeysLeft(u, t) = job[u].keys
    BY DEF KeysLeft
  <2>2. Shape /\ ViewSound(u) /\ WorkSound(u) /\ MarksLocked(u)
    BY DEF TypeInv, HistoryInv, LockInv
  <2>3. MovedAside(t)
    BY <2>2, CommitMoves
  <2> QED BY <2>1, <2>2, <2>3 DEF MovedAside, SameWork
<1>2. /\ FirstEvent(u)' = FirstEvent(u) /\ Running(u)' = Running(u) /\ ResetBy(u)' = ResetBy(u)
  BY <1>1 DEF FirstEvent, Running, ResetBy, ResetAt
<1>3. job[u].events \subseteq Lsns /\ \A k \in Lsns : Wal[k].client \in Clients \cap Changing
  BY <1>1, LoadType, LogType DEF Jobs, Changing
<1>4. at[u] = "apply" => History(u, Wal[job[u].item].client)' = History(u, Wal[job[u].item].client)
  <2>1. SUFFICES ASSUME at[u] = "apply"
                 PROVE  History(u, Wal[job[u].item].client)' = History(u, Wal[job[u].item].client)
    OBVIOUS
  <2>2. job[u].item \in Lsns
    BY <1>1, <1>3, <2>1 DEF WorkSound, FirstEvent
  <2> QED BY <1>1, <1>3, <2>1, <2>2, OthersSeeCommit DEF MarksLocked
<1>5. at[u] = "reset" => History(u, job[u].item)' = History(u, job[u].item)
  <2>1. SUFFICES ASSUME at[u] = "reset" PROVE History(u, job[u].item)' = History(u, job[u].item)
    OBVIOUS
  <2>2. job[u].item \in DOMAIN ReloadFrom
    BY <1>1, <2>1, ItemType DEF TypeInv
  <2>3. job[u].item \in Clients /\ job[u].item \in Changing
    BY <2>2, LogType DEF Changing
  <2> QED BY <1>1, <2>1, <2>3, OthersSeeCommit DEF MarksLocked
<1>6. ASSUME NEW k \in Lsns
      PROVE  /\ k <= Mark(u, Wal[k].client) => k <= Mark(u, Wal[k].client)'
             /\ k \in DOMAIN History(u, Wal[k].client) => k \in DOMAIN History(u, Wal[k].client)'
             /\ Kind[u] = "reload" /\ k \in job[u].events =>
                    Mark(u, Wal[k].client)' = Mark(u, Wal[k].client)
  <2> DEFINE c == Wal[k].client
             m == Mark(u, c)
             n == Mark(u, c)'
  <2>1. /\ DOMAIN History(u, c) \subseteq DOMAIN History(u, c)'
        /\ m <= n /\ n \in Int /\ m \in Int
        /\ HoldsApply(u, c) => n = m
    BY <1>3, OthersSeeCommit
  <2>2. k \in Int
    BY LogType
  <2>3. Kind[u] = "reload" /\ k \in job[u].events => HoldsApply(u, c)
    BY <1>1 DEF MarksLocked
  <2> HIDE DEF m, n
  <2>4. k <= m => k <= n
    BY <2>1, <2>2
  <2> QED BY <2>1, <2>3, <2>4 DEF m, n
<1> QED BY <1>1, <1>2, <1>3, <1>4, <1>5, <1>6 DEF WorkSound

\* A commit keeps the invariant.
LEMMA CommitHistory ==
    ASSUME TypeInv, LockInv, HistoryInv, NEW t \in Loads, Commit(t)
    PROVE  HistoryInv'
<1>1. CommittedSound'
  BY CommitSound
<1>2. ASSUME NEW u \in Loads PROVE ViewSound(u)' /\ WorkSound(u)'
  BY <1>1, CommitterHistory, CommitView, CommitWork
<1> QED BY <1>1, <1>2 DEF HistoryInv

\* Every step keeps the invariant.
LEMMA NextHistory ==
    ASSUME TypeInv, LockInv, KnownInv, HistoryInv, BaselinesComeFirst, FactsOfKnownClients,
           [Next]_vars
    PROVE  HistoryInv'
<1>1. Shape
  BY DEF TypeInv
<1>2. CASE UNCHANGED vars
  <2>1. db' = db /\ at' = at /\ job' = job /\ own' = own /\ locks' = locks
    BY <1>2 DEF vars
  <2>2. CommittedSound'
    BY <2>1 DEF HistoryInv, CommittedSound, Excused, Overtaken, NotReplayed, Quarantined, LsnsOf
  <2>3. ASSUME NEW t \in Loads PROVE ViewSound(t)' /\ WorkSound(t)'
    <3>1. /\ \A c : History(t, c)' = History(t, c) /\ Mark(t, c)' = Mark(t, c)
          /\ FirstEvent(t)' = FirstEvent(t) /\ Running(t)' = Running(t)
          /\ ResetBy(t)' = ResetBy(t)
      BY <2>1 DEF History, Mark, FirstEvent, Running, ResetBy, ResetAt
    <3>2. ViewSound(t) /\ WorkSound(t)
      BY DEF HistoryInv
    <3>3. ViewSound(t)'
      <4>1. \A c : MarkFits(t, c, job[t], own[t]) => MarkFits(t, c, job[t], own[t])'
        BY <2>1 DEF MarkFits, Read
      <4>2. \A q, l : Excused(q, l) => Excused(q, l)'
        BY <2>1 DEF Excused, Overtaken, NotReplayed, Quarantined, LsnsOf
      <4>3. \A l : ChangeFits(t, l, at[t], job[t], own[t]) =>
                ChangeFits(t, l, at[t], job[t], own[t])'
        BY <2>1, <4>2 DEF ChangeFits, Read, MarkIn, ResetAt
      <4> QED BY <2>1, <3>1, <3>2, <4>1, <4>3 DEF ViewSound, HoldsApply
    <3>4. WorkSound(t)'
      BY <2>1, <3>1, <3>2 DEF WorkSound
    <3> QED BY <3>3, <3>4
  <2> QED BY <2>2, <2>3 DEF HistoryInv
<1>3. CASE Next
  <2>1. PICK t \in Loads : StepOf(t)
    BY <1>1, <1>3, NextIs
  <2>2. CASE Ends(t) \/ Collision(t) \/ Unresolved(t)
    <3>1. UNCHANGED db /\ \E why \in Failures : Moved(t, why, NoWork, NoWrites, {})
      BY <2>2 DEF Ends, Collision, Unresolved, Failures
    <3>2. at[t] # "committed"
      BY <2>2 DEF Ends, Collision, Unresolved, Running
    <3> QED BY <3>1, <3>2, EndHistory
  <2>3. CASE Begin(t) \/ Commit(t)
    BY <2>3, BeginHistory, CommitHistory
  <2>4. CASE RejectStale(t) \/ Applied(t) \/ Reset(t) \/ \E l \in Lsns : LockEvent(t, l)
    BY <2>4, RejectHistory, AppliedHistory, ResetHistory, LockEventHistory
  <2>5. CASE \E c \in Clients : LockForReset(t, c)
    BY <2>5, LockForResetHistory
  <2>6. CASE \/ \E c \in Clients : CheckHistory(t, c)
             \/ BeginOrphans(t) \/ Repoint(t) \/ Pinned(t)
             \/ StopgapAllowed(t) \/ AllocateStopgap(t)
             \/ \E x \in Facts : Resolve(t, x)
    BY <2>6, SeedAndFactHistory
  <2>7. CASE InsertBaseline(t) \/ Deleted(t) \/ StopgapInserted(t)
    BY <2>7, BaselineHistory, DeletedHistory, StopgapHistory
  <2> QED BY <2>1, <2>2, <2>3, <2>4, <2>5, <2>6, <2>7 DEF StepOf
<1> QED BY <1>2, <1>3

\* At first there are the seeded clients' baselines, and no change applied.
LEMMA InitHistory ==
    ASSUME Init
    PROVE  HistoryInv
<1>1. \A t \in Loads : at[t] = "ready" /\ job[t] = NoWork /\ own[t] = NoWrites
  BY DEF Init
<1>2. \A c \in Clients : db.wm[c] = None
  BY DEF Init
<1> DEFINE B == Insert(NoHistory, 0, BaselineRow(ProfileAttrs))
<1>3. \A c \in Clients : db.snap[c] = IF c \in Seeded THEN B ELSE NoHistory
  BY DEF Init
<1>4. /\ DOMAIN B = {0} /\ DOMAIN NoHistory = {}
      /\ B[0].is_current /\ B[0].valid_from = Epoch /\ B[0].valid_to = Forever
  BY DEF Insert, NoHistory, BaselineRow, Row
<1> HIDE DEF B
<1>5. \A c \in Clients : SoundHistory(c, db.snap[c], None) /\ QuietHistory(db.snap[c])
  <2>1. SUFFICES ASSUME NEW c \in Clients
                 PROVE  SoundHistory(c, db.snap[c], None) /\ QuietHistory(db.snap[c])
    OBVIOUS
  <2> DEFINE H == db.snap[c]
  <2>2. H = IF c \in Seeded THEN B ELSE NoHistory
    BY <1>3
  <2>3. {l \in Lsns : Wal[l].client = c /\ l <= None} = {}
    BY LogType DEF None
  <2> HIDE DEF H
  <2>4. /\ (0 \in DOMAIN H <=> c \in Seeded) /\ DOMAIN H \subseteq {0}
        /\ \A l \in DOMAIN H : /\ H[l].is_current /\ H[l].valid_from = Epoch
                               /\ H[l].valid_to = Forever
    BY <1>4, <2>2
  <2>5. Tiled(H) /\ QuietHistory(H)
    BY <2>4 DEF Tiled, QuietHistory
  <2>6. SoundHistory(c, H, None)
    BY <2>3, <2>4, <2>5 DEF SoundHistory, Newest
  <2> QED BY <2>5, <2>6 DEF H
<1>6. CommittedSound
  <2>1. db.rejected = {}
    BY DEF Init
  <2>2. ASSUME NEW l \in Lsns
        PROVE  <<"stale_lsn", l>> \notin db.rejected /\ ~ (l <= db.wm[Wal[l].client])
    <3>1. ~ (l <= None) /\ Wal[l].client \in Clients
      BY LogType DEF None
    <3> QED BY <1>2, <2>1, <3>1
  <2> QED BY <1>2, <1>5, <2>2 DEF CommittedSound
<1>7. ASSUME NEW t \in Loads PROVE ViewSound(t) /\ WorkSound(t)
  <2>1. ASSUME NEW c \in Clients
        PROVE  /\ History(t, c) = db.snap[c] /\ Mark(t, c) = None /\ Touched(NoWrites.rows[c]) = {}
               /\ QuietHistory(NoWrites.rows[c].put)
    <3> DEFINE base == db.snap[c]
               edit == NoWrites.rows[c]
    <3>1. /\ Touched(edit) = {} /\ DOMAIN edit.put = {} /\ edit \in Edits
      BY NothingType DEF Touched, Writes
    <3>2. base \in Histories
      BY InitType, LoadType DEF TypeInv, Shape, Tables
    <3>3. Read(base, edit) = base
      <4> HIDE DEF base, edit
      <4> QED BY <3>1, <3>2, ReadNothing
    <3>4. History(t, c) = Read(base, edit)
      BY <1>1 DEF History, Read
    <3>5. Mark(t, c) = None
      BY <1>1, <1>2, NothingType DEF Mark
    <3> QED BY <3>1, <3>3, <3>4, <3>5 DEF QuietHistory
  <2>2. ASSUME NEW l \in Lsns PROVE ChangeFits(t, l, at[t], job[t], own[t])
    <3>1. MarkIn(own[t], Wal[l].client) = None /\ own[t].rejected = {}
      BY <1>1, <1>2, LogType, NothingType DEF MarkIn
    <3>2. ~ (l <= None)
      BY LogType DEF None
    <3> QED BY <3>1, <3>2 DEF ChangeFits
  <2>3. ViewSound(t)
    BY <1>1, <1>5, <2>1, <2>2, NothingType DEF ViewSound
  <2>4. WorkSound(t)
    BY <1>1, NothingType DEF WorkSound, Running, ResetBy, ResetAt
  <2> QED BY <2>3, <2>4
<1> QED BY <1>6, <1>7 DEF HistoryInv

\* The invariant implies what is said of the committed histories, and of the
\* changes that the watermark has passed.
LEMMA HistoriesOf ==
    ASSUME TypeInv, HistoryInv
    PROVE  CommittedHistoriesSound /\ NothingMissed
<1>1. Shape /\ CommittedSound
  BY DEF TypeInv, HistoryInv
<1>2. \A c \in Clients : IsHistory(db.snap[c])
  <2>1. \A c \in Clients : db.snap[c] \in Histories
    BY <1>1 DEF Shape, Tables
  <2> QED BY <2>1, HistoryIs
<1>3. ASSUME NEW c \in Clients
      PROVE  /\ Tiled(db.snap[c])
             /\ \A l \in Newest(db.snap[c]) : l >= 0 => db.snap[c][l].is_current
             /\ \A l \in Changed(c) : l \in LsnsOf(c) /\ l <= db.wm[c]
  <2> DEFINE H == db.snap[c]
  <2>1. CASE c \in Changing
    BY <1>1, <2>1 DEF CommittedSound, SoundHistory, Changed
  <2>2. CASE c \notin Changing
    <3>1. QuietHistory(H) /\ DOMAIN H \subseteq Int
      BY <1>1, <1>2, <2>2 DEF CommittedSound, IsHistory
    <3> HIDE DEF H
    <3>2. Tiled(H) /\ \A l \in Newest(H) : l >= 0 => H[l].is_current
      BY <3>1 DEF QuietHistory, Tiled, Newest
    <3>3. {l \in DOMAIN H : l > 0} = {}
      BY <3>1 DEF QuietHistory
    <3>4. Changed(c) = {l \in DOMAIN H : l > 0}
      BY DEF Changed, H
    <3> QED BY <3>2, <3>3, <3>4 DEF H
  <2> QED BY <2>1, <2>2
<1>4. ASSUME NEW c \in Clients, db.wm[c] # None PROVE db.wm[c] \in Changed(c)
  <2>1. db.wm[c] \in LsnsOf(c) \cap DOMAIN db.snap[c]
    BY <1>1, <1>4 DEF CommittedSound
  <2>2. db.wm[c] > 0
    BY <2>1, LogType DEF LsnsOf
  <2> QED BY <2>1, <2>2 DEF Changed
<1>5. CommittedHistoriesSound
  BY <1>3, <1>4 DEF CommittedHistoriesSound
<1>6. ASSUME NEW l \in Lsns
      PROVE  \/ l \in DOMAIN db.snap[Wal[l].client]
             \/ l > db.wm[Wal[l].client] /\ <<"stale_lsn", l>> \notin db.rejected
             \/ Excused(db.rejected, l)
  <2> DEFINE w == db.wm[Wal[l].client]
  <2>1. l \in Int /\ w \in Int
    <3>1. Marks \subseteq Int
      BY LogType DEF Marks, None
    <3> QED BY <1>1, <3>1, LogType DEF Shape, Tables
  <2>2. /\ <<"stale_lsn", l>> \in db.rejected => l <= w
        /\ l <= w => l \in DOMAIN db.snap[Wal[l].client] \/ Excused(db.rejected, l)
    BY <1>1 DEF CommittedSound
  <2> HIDE DEF w
  <2>3. l > w \/ l <= w
    BY <2>1
  <2>4. CASE l <= w
    BY <2>2, <2>4
  <2>5. CASE ~ (l <= w)
    BY <2>2, <2>3, <2>5 DEF w
  <2> QED BY <2>4, <2>5
<1>7. NothingMissed
  BY <1>6 DEF NothingMissed, Excused, Quarantined
<1> QED BY <1>5, <1>7

\* Whatever applies, reloads, seeds and fact loads overlap, in whatever order
\* the file names the changes and from wherever a reload replays: the committed
\* history of every client tiles time, its newest version is the open one, its
\* versions are changes of the client up to the watermark, and that is one.
THEOREM HistoriesTheorem ==
    ASSUME BaselinesComeFirst, FactsOfKnownClients
    PROVE  Spec => []CommittedHistoriesSound
<1> DEFINE Inv == TypeInv /\ LockInv /\ KnownInv /\ HistoryInv
<1>1. Init => Inv
  BY InitType, InitLocks, InitKnown, InitHistory
<1>2. Inv /\ [Next]_vars => Inv'
  BY NextType, NextLocks, NextKnown, NextHistory
<1>3. Inv => CommittedHistoriesSound
  BY HistoriesOf
<1> HIDE DEF Inv
<1> QED BY <1>1, <1>2, <1>3, PTL DEF Spec

\* No overlap of loads loses a change: one that the watermark has passed, or
\* that apply_cdc_event has quarantined as stale, is on record, unless the
\* file's order, a reload's window or the guard on deletes accounts for it.
THEOREM NothingMissedTheorem ==
    ASSUME BaselinesComeFirst, FactsOfKnownClients
    PROVE  Spec => []NothingMissed
<1> DEFINE Inv == TypeInv /\ LockInv /\ KnownInv /\ HistoryInv
<1>1. Init => Inv
  BY InitType, InitLocks, InitKnown, InitHistory
<1>2. Inv /\ [Next]_vars => Inv'
  BY NextType, NextLocks, NextKnown, NextHistory
<1>3. Inv => NothingMissed
  BY HistoriesOf
<1> HIDE DEF Inv
<1> QED BY <1>1, <1>2, <1>3, PTL DEF Spec
----------------------------------------------------------------------------
(* Committed facts.                                                         *)

\* What a step is to keep of FactInv: of the rows it writes, of the pins, and
\* of the rows it is about to pin to or delete.
RowsFit(t, writes) ==
    \A c \in Clients \ Changing :
        /\ OfKind(t, db.snap[c], writes.rows[c])
        /\ \A l \in writes.rows[c].gone :
              /\ \A x \in DOMAIN writes.pins : FactRow[x].client = c => writes.pins[x] # l
              /\ \A x \in DOMAIN db.fact \ DOMAIN writes.pins :
                    FactRow[x].client = c => db.fact[x] # l
              /\ \A u \in Loads \ {t} : \A x \in DOMAIN own[u].pins :
                    FactRow[x].client = c => own[u].pins[x] # l

\* The same of the pins it writes,
PinsFit(t, writes) ==
    \A x \in DOMAIN writes.pins :
        LET c == FactRow[x].client IN
        /\ Covers(Read(db.snap[c], writes.rows[c]), x, writes.pins[x])
        /\ \A u \in Loads \ {t} : /\ x \notin DOMAIN own[u].pins
                                  /\ writes.pins[x] \notin own[u].rows[c].gone

\* and of the rows it goes on to pin to or delete.
KeysFit(step, work, writes) ==
    /\ step = "pin" =>
          \A c \in Clients : \A l \in work.keys : FactRow[work.item].client = c =>
              Covers(Read(db.snap[c], writes.rows[c]), work.item, l)
    /\ step \in {"repoint", "delete"} =>
          /\ 0 \in DOMAIN Read(db.snap[work.item], writes.rows[work.item])
          /\ \A l \in work.keys : l < 0

\* Facts are of clients that do not change.
LEMMA FactClients ==
    ASSUME FactsAreSettled, NEW x \in Facts
    PROVE  FactRow[x].client \in Clients \ Changing
BY LogType DEF FactsAreSettled

\* Pins are of facts.
LEMMA PinnedFacts ==
    ASSUME NEW w \in Writes
    PROVE  DOMAIN w.pins \subseteq Facts
BY PartialIs DEF Writes, Pinnings

\* A step that keeps that and commits nothing keeps FactInv.
LEMMA FitsFacts ==
    ASSUME TypeInv, FactInv, FactsAreSettled,
           NEW t \in Loads, NEW step, NEW work, NEW writes \in Writes, NEW held,
           Moved(t, step, work, writes, held), UNCHANGED db,
           RowsFit(t, writes), PinsFit(t, writes), KeysFit(step, work, writes)
    PROVE  FactInv'
<1>1. Shape /\ at'[t] = step /\ job'[t] = work /\ own'[t] = writes
  BY MovedOnly DEF TypeInv
<1>2. ASSUME NEW u \in Loads \ {t}
      PROVE  /\ at'[u] = at[u] /\ job'[u] = job[u] /\ own'[u] = own[u]
             /\ \A c : History(u, c)' = History(u, c)
             /\ Pins(u)' = Pins(u)
  <2>1. at'[u] = at[u] /\ job'[u] = job[u] /\ own'[u] = own[u]
    BY <1>1, MovedOnly
  <2> QED BY <2>1 DEF History, Pins
<1>4. \A u \in Loads : WritesOfKind(u)'
  <2>1. WritesOfKind(t)'
    BY <1>1 DEF WritesOfKind, RowsFit, OfKind
  <2>2. ASSUME NEW u \in Loads \ {t} PROVE WritesOfKind(u)'
    BY <1>2 DEF FactInv, WritesOfKind, OfKind
  <2> QED BY <2>1, <2>2
<1>5. /\ DOMAIN Pins(t)' = DOMAIN db.fact \cup DOMAIN writes.pins
      /\ \A x \in DOMAIN Pins(t)' :
             Pins(t)'[x] = IF x \in DOMAIN writes.pins THEN writes.pins[x] ELSE db.fact[x]
  <2> DEFINE below == db.fact
             above == writes.pins
             P == Overlay(below, above)
  <2>1. Pins(t)' = P
    BY <1>1 DEF Pins
  <2>2. /\ DOMAIN P = DOMAIN below \cup DOMAIN above
        /\ \A x \in DOMAIN below \cup DOMAIN above :
               P[x] = IF x \in DOMAIN above THEN above[x] ELSE below[x]
    BY OverlayIs
  <2> HIDE DEF P
  <2> QED BY <2>1, <2>2
<1>6. NothingOnDeleted(t)'
  BY <1>1, <1>2, <1>5 DEF NothingOnDeleted, Unpinned, RowsFit
<1>7. ASSUME NEW u \in Loads \ {t} PROVE NothingOnDeleted(u)'
  <2>1. SUFFICES ASSUME NEW c \in Clients \ Changing, NEW l \in own[u].rows[c].gone
                 PROVE  /\ \A x \in DOMAIN Pins(u) : FactRow[x].client = c => Pins(u)[x] # l
                        /\ \A v \in Loads \ {u} : \A x \in DOMAIN own'[v].pins :
                              FactRow[x].client = c => own'[v].pins[x] # l
    BY <1>2 DEF NothingOnDeleted, Unpinned
  <2>2. /\ \A x \in DOMAIN Pins(u) : FactRow[x].client = c => Pins(u)[x] # l
        /\ \A v \in Loads \ {u} : \A x \in DOMAIN own[v].pins :
              FactRow[x].client = c => own[v].pins[x] # l
    BY <2>1 DEF FactInv, NothingOnDeleted, Unpinned
  <2>3. \A x \in DOMAIN writes.pins : FactRow[x].client = c => writes.pins[x] # l
    BY <2>1 DEF PinsFit
  <2> QED BY <1>1, <1>2, <2>2, <2>3
<1>8. PinsCover(t)'
  <2>1. \A c : History(t, c)' = Read(db.snap[c], writes.rows[c])
    BY <1>1 DEF History, Read
  <2> QED BY <1>1, <1>2, <2>1 DEF PinsCover, PinsFit, KeysFit, Covers
<1>9. ASSUME NEW u \in Loads \ {t} PROVE PinsCover(u)'
  <2>1. PinsCover(u)
    BY DEF FactInv
  <2>2. \A v \in Loads \ {u} : DOMAIN own[u].pins \cap DOMAIN own'[v].pins = {}
    BY <1>1, <1>2, <2>1 DEF PinsCover, PinsFit
  <2> QED BY <1>2, <2>1, <2>2 DEF PinsCover, Covers
<1>10. \A x \in DOMAIN db'.fact : Covers(db'.snap[FactRow[x].client], x, db'.fact[x])
  BY DEF FactInv
<1> QED BY <1>4, <1>6, <1>7, <1>8, <1>9, <1>10 DEF FactInv, Covers

\* Where the rows and pins of a load stay as they are, they are as before.
LEMMA SameFits ==
    ASSUME Shape, FactInv, FactsAreSettled, NEW t \in Loads, NEW writes,
           \A c \in Clients \ Changing : writes.rows[c] = own[t].rows[c],
           writes.pins = own[t].pins
    PROVE  RowsFit(t, writes) /\ PinsFit(t, writes)
<1>1. WritesOfKind(t) /\ NothingOnDeleted(t) /\ PinsCover(t)
  BY DEF FactInv
<1>2. /\ DOMAIN Pins(t) = DOMAIN db.fact \cup DOMAIN own[t].pins
      /\ \A x \in DOMAIN Pins(t) :
             Pins(t)[x] = IF x \in DOMAIN own[t].pins THEN own[t].pins[x] ELSE db.fact[x]
  BY MarkType
<1>3. RowsFit(t, writes)
  BY <1>1, <1>2 DEF RowsFit, WritesOfKind, NothingOnDeleted, Unpinned
<1>4. \A x \in DOMAIN own[t].pins : FactRow[x].client \in Clients \ Changing
  BY LoadType, PinnedFacts, FactClients
<1>5. \A c \in Clients \ Changing : Read(db.snap[c], writes.rows[c]) = History(t, c)
  BY HistoryReads
<1>6. ASSUME NEW x \in DOMAIN own[t].pins, NEW u \in Loads \ {t}
      PROVE  own[t].pins[x] \notin own[u].rows[FactRow[x].client].gone
  <2>1. NothingOnDeleted(u)
    BY DEF FactInv
  <2> QED BY <1>4, <2>1 DEF NothingOnDeleted, Unpinned
<1>7. PinsFit(t, writes)
  BY <1>1, <1>4, <1>5, <1>6 DEF PinsFit, PinsCover
<1> QED BY <1>3, <1>7

\* A load that ends leaves nothing behind.
LEMMA EndFacts ==
    ASSUME TypeInv, FactInv, FactsAreSettled, NEW t \in Loads, NEW why \in Failures,
           Moved(t, why, NoWork, NoWrites, {}), UNCHANGED db
    PROVE  FactInv'
<1>1. RowsFit(t, NoWrites) /\ PinsFit(t, NoWrites) /\ KeysFit(why, NoWork, NoWrites)
  BY NothingType DEF RowsFit, PinsFit, KeysFit, OfKind, Failures
<1> QED BY <1>1, NothingType, FitsFacts

\* A load that goes on to a step that neither pins nor deletes, with nothing
\* written but rows of clients that change, keeps FactInv.
LEMMA GoingFacts ==
    ASSUME TypeInv, FactInv, FactsAreSettled, NEW t \in Loads,
           NEW step \in {"next", "apply", "reset", "baseline", "stopgap", "allocate", "insert"},
           NEW work, NEW writes \in Writes, NEW held,
           Moved(t, step, work, writes, held), UNCHANGED db,
           \A c \in Clients \ Changing : writes.rows[c] = own[t].rows[c],
           writes.pins = own[t].pins
    PROVE  FactInv'
<1>1. Shape
  BY DEF TypeInv
<1>2. RowsFit(t, writes) /\ PinsFit(t, writes) /\ KeysFit(step, work, writes)
  BY <1>1, SameFits DEF KeysFit
<1> QED BY <1>2, FitsFacts

\* Such are the beginnings, the steps of the applies and the reloads, and some
\* of the others'.
LEMMA OtherFacts ==
    ASSUME TypeInv, FactInv, FactsAreSettled, NEW t \in Loads,
           \/ Begin(t) \/ RejectStale(t) \/ Applied(t) \/ Reset(t) \/ BeginOrphans(t)
           \/ \E l \in Lsns : LockEvent(t, l)
           \/ \E c \in Clients : LockForReset(t, c) \/ CheckHistory(t, c)
    PROVE  FactInv'
<1> DEFINE w == own[t]
           i == job[t].item
<1>1. Shape /\ w \in Writes
  BY LoadType DEF TypeInv
<1>2. CASE Begin(t)
  <2>1. PICK kind, work : Start(t, kind, work)
    BY <1>2 DEF Begin, BeginApply, BeginReload, BeginSeed, BeginFacts
  <2>2. UNCHANGED db /\ Moved(t, "next", work, w, locks[t])
    BY <1>1, <2>1, StartMoves
  <2> HIDE DEF w
  <2> QED BY <1>1, <2>2, GoingFacts DEF w
<1>3. ASSUME NEW l \in Lsns, LockEvent(t, l) PROVE FactInv'
  <2> DEFINE writes == Quarantining(t, <<"delete_with_no_baseline", l>>)
  <2>1. /\ UNCHANGED db
        /\ \/ \E work, held : Moved(t, "next", work, writes, held)
           \/ \E work, held : Moved(t, "apply", work, w, held)
    BY <1>1, <1>3, LockEventMoves
  <2>2. writes.rows = w.rows /\ writes.pins = w.pins /\ writes \in Writes
    BY <1>1, <1>3, QuarantiningIs DEF Reasons
  <2> HIDE DEF writes, w
  <2>3. ASSUME NEW work, NEW held, Moved(t, "next", work, writes, held) PROVE FactInv'
    BY <2>1, <2>2, <2>3, GoingFacts DEF w
  <2>4. ASSUME NEW work, NEW held, Moved(t, "apply", work, w, held) PROVE FactInv'
    BY <1>1, <2>1, <2>4, GoingFacts DEF w
  <2> QED BY <2>1, <2>3, <2>4
<1>4. CASE RejectStale(t)
  <2> DEFINE writes == Quarantining(t, <<"stale_lsn", i>>)
  <2>1. UNCHANGED db /\ Moved(t, "next", After(t), writes, locks[t])
    BY <1>1, <1>4, RejectMoves
  <2>2. writes.rows = w.rows /\ writes.pins = w.pins /\ writes \in Writes
    <3>1. i \in Lsns
      BY <1>1, <1>4, ItemType, RejectMoves
    <3> QED BY <1>1, <3>1, QuarantiningIs DEF Reasons
  <2> HIDE DEF writes
  <2> QED BY <2>1, <2>2, GoingFacts
<1>5. CASE Applied(t)
  <2> DEFINE c == Wal[i].client
             mark == [d \in {c} |-> i]
             H == Appended(t)
             writes == MarkedAs(t, c, H, mark)
  <2>1. at[t] = "apply" /\ UNCHANGED db /\ Moved(t, "next", After(t), writes, locks[t])
    BY <1>5 DEF Applied
  <2>2. i \in Lsns /\ c \in Clients /\ c \in Changing /\ IsHistory(H)
    BY <1>1, <2>1, ItemType, LogType, AppendedType DEF Changing
  <2>3. mark \in Partial(Clients, Marks \ {None})
    <3>1. DOMAIN mark = {c} /\ mark[c] = i /\ mark = [d \in DOMAIN mark |-> mark[d]]
      OBVIOUS
    <3>2. i \in Marks \ {None}
      BY <2>2, LogType DEF Marks, None
    <3> HIDE DEF mark
    <3> QED BY <2>2, <3>1, <3>2, PartialIs
  <2>4. /\ writes \in Writes /\ writes.pins = w.pins
        /\ \A d \in Clients : d # c => writes.rows[d] = w.rows[d]
    <3> HIDE DEF c, i, H, mark
    <3>1. /\ Shape /\ c \in Clients /\ IsHistory(H)
          /\ mark \in Partial(Clients, Marks \ {None})
      BY <1>1, <2>2, <2>3
    <3>2. /\ MarkedAs(t, c, H, mark) \in Writes
          /\ MarkedAs(t, c, H, mark).rows[c] = Edit(db.snap[c], H)
          /\ MarkedAs(t, c, H, mark).pins = own[t].pins
      BY ONLY <3>1, MarkedIs, t \in Loads
    <3>3. ASSUME NEW d \in Clients, d # c
          PROVE  MarkedAs(t, c, H, mark).rows[d] = own[t].rows[d]
      BY ONLY <3>1, <3>3, MarkedIs, t \in Loads, d \in Clients
    <3> QED BY <3>2, <3>3
  <2> HIDE DEF writes, c
  <2> QED BY <2>1, <2>2, <2>4, GoingFacts
<1>6. CASE Reset(t)
  <2> DEFINE H == Remaining(t)
             mark == RolledBack(t)
             writes == MarkedAs(t, i, H, mark)
  <2>1. at[t] = "reset" /\ UNCHANGED db /\ \E work : Moved(t, "next", work, writes, locks[t])
    BY <1>1, <1>6, ResetMoves
  <2>2. i \in Clients /\ i \in Changing /\ IsHistory(H) /\ mark \in Partial(Clients, Marks \ {None})
    <3>1. i \in DOMAIN ReloadFrom
      BY <2>1, ItemType
    <3> QED BY <1>1, <3>1, LogType, RemainingType DEF Changing
  <2>3. /\ writes \in Writes /\ writes.pins = w.pins
        /\ \A d \in Clients : d # i => writes.rows[d] = w.rows[d]
    <3> HIDE DEF i, H, mark
    <3>1. /\ Shape /\ i \in Clients /\ IsHistory(H)
          /\ mark \in Partial(Clients, Marks \ {None})
      BY <1>1, <2>2
    <3>2. MarkedAs(t, i, H, mark) \in Writes /\ MarkedAs(t, i, H, mark).pins = own[t].pins
      BY ONLY <3>1, MarkedIs, t \in Loads
    <3>3. ASSUME NEW d \in Clients, d # i
          PROVE  MarkedAs(t, i, H, mark).rows[d] = own[t].rows[d]
      BY ONLY <3>1, <3>3, MarkedIs, t \in Loads, d \in Clients
    <3> QED BY <3>2, <3>3
  <2> HIDE DEF writes, i
  <2> QED BY <2>1, <2>2, <2>3, GoingFacts, SMTT(40)
<1>7. CASE BeginOrphans(t)
  <2>1. UNCHANGED db /\ \E work : Moved(t, "next", work, w, locks[t])
    BY <1>1, <1>7, OrphansMoves
  <2> HIDE DEF w
  <2> QED BY <1>1, <2>1, GoingFacts DEF w
<1>8. ASSUME NEW c \in Clients, LockForReset(t, c) PROVE FactInv'
  <2>1. UNCHANGED db /\ \E work, held : Moved(t, "reset", work, w, held)
    BY <1>1, <1>8, LockForResetMoves
  <2> HIDE DEF w
  <2> QED BY <1>1, <2>1, GoingFacts DEF w
<1>9. ASSUME NEW c \in Clients, CheckHistory(t, c) PROVE FactInv'
  <2>1. UNCHANGED db /\ \E step \in {"next", "baseline"} : \E work : Moved(t, step, work, w, locks[t])
    BY <1>1, <1>9, CheckHistoryMoves
  <2> HIDE DEF w
  <2> QED BY <1>1, <2>1, GoingFacts DEF w
<1> QED BY <1>2, <1>3, <1>4, <1>5, <1>6, <1>7, <1>8, <1>9

\* A fact load that finds a version will pin to it; one that finds none goes on
\* to a stopgap, and writes nothing yet.
LEMMA ResolvedFacts ==
    ASSUME TypeInv, FactInv, FactsAreSettled, NEW t \in Loads,
           \/ \E x \in Facts : Resolve(t, x)
           \/ StopgapAllowed(t) \/ AllocateStopgap(t)
    PROVE  FactInv'
<1> DEFINE j == job[t]
           w == own[t]
<1>1. /\ Shape /\ w \in Writes
      /\ j = [events |-> j.events, pending |-> j.pending, left |-> j.left,
              orphans |-> j.orphans, item |-> j.item, seen |-> j.seen, keys |-> j.keys]
  BY LoadType, ItemType DEF TypeInv
<1>2. RowsFit(t, w) /\ PinsFit(t, w)
  BY <1>1, SameFits
<1>3. \A c : Read(db.snap[c], w.rows[c]) = History(t, c)
  BY HistoryReads
<1>4. ASSUME NEW x \in Facts, Resolve(t, x) PROVE FactInv'
  <2>1. /\ UNCHANGED db
        /\ \/ \E l \in FoundFor(t, x) :
                 Moved(t, "pin", [j EXCEPT !.item = x, !.keys = {l}], w, locks[t])
           \/ Moved(t, "stopgap", [j EXCEPT !.item = x], w, locks[t])
    BY <1>1, <1>4, ResolveMoves
  <2>2. ASSUME NEW l \in FoundFor(t, x),
               Moved(t, "pin", [j EXCEPT !.item = x, !.keys = {l}], w, locks[t])
        PROVE  FactInv'
    <3> DEFINE work == [j EXCEPT !.item = x, !.keys = {l}]
               step == "pin"
    <3>1. work.item = x /\ work.keys = {l}
      BY <1>1
    <3>2. Moved(t, step, work, w, locks[t])
      BY <2>2
    <3> HIDE DEF work
    <3>3. KeysFit(step, work, w)
      BY <1>3, <3>1, SMTT(40) DEF KeysFit, Covers, FoundFor
    <3> HIDE DEF w, step
    <3> QED BY <1>1, <1>2, <2>1, <3>2, <3>3, FitsFacts
  <2>3. CASE Moved(t, "stopgap", [j EXCEPT !.item = x], w, locks[t])
    <3> DEFINE work == [j EXCEPT !.item = x]
    <3>1. Moved(t, "stopgap", work, w, locks[t])
      BY <2>3
    <3> HIDE DEF w, work
    <3> QED BY <1>1, <2>1, <3>1, GoingFacts DEF w
  <2> QED BY <2>1, <2>2, <2>3
<1>5. CASE StopgapAllowed(t)
  <2>1. UNCHANGED db /\ \E held : Moved(t, "allocate", j, w, held)
    BY <1>5 DEF StopgapAllowed
  <2> HIDE DEF w, j
  <2> QED BY <1>1, <2>1, GoingFacts DEF w
<1>6. CASE AllocateStopgap(t)
  <2>1. UNCHANGED db /\ \E work : Moved(t, "insert", work, w, locks[t])
    BY <1>1, <1>6, AllocateMoves
  <2> HIDE DEF w
  <2> QED BY <1>1, <2>1, GoingFacts DEF w
<1> QED BY <1>4, <1>5, <1>6

\* A load that adds rows or takes some away, and leaves the others as it read
\* them, has written what it adds, and deletes what it takes away.
LEMMA PlainEdit ==
    ASSUME NEW base \in Histories, NEW edit \in Edits, NEW H, IsHistory(H),
           DOMAIN edit.put \cap DOMAIN base = {},
           \A l \in DOMAIN H : IF l \in DOMAIN Read(base, edit) THEN H[l] = Read(base, edit)[l]
                               ELSE l \notin DOMAIN base
    PROVE  /\ DOMAIN Edit(base, H).put = DOMAIN H \ DOMAIN base
           /\ Edit(base, H).gone = DOMAIN base \ DOMAIN H
           /\ Read(base, Edit(base, H)) = H
<1> DEFINE R == Read(base, edit)
           E == Edit(base, H)
<1>1. /\ DOMAIN R = (DOMAIN base \ edit.gone) \cup DOMAIN edit.put
      /\ \A l \in DOMAIN R : R[l] = IF l \in DOMAIN edit.put THEN edit.put[l] ELSE base[l]
  BY ReadType
<1>2. /\ DOMAIN E.put = {l \in DOMAIN H : l \notin DOMAIN base \/ H[l] # base[l]}
      /\ E.gone = DOMAIN base \ DOMAIN H
      /\ Read(base, E) = H
  BY EditType
<1>3. \A l \in DOMAIN H : IF l \in DOMAIN R THEN H[l] = R[l] ELSE l \notin DOMAIN base
  OBVIOUS
<1> HIDE DEF R, E
<1>4. \A l \in DOMAIN H : l \in DOMAIN base => H[l] = base[l]
  BY <1>1, <1>3
<1> QED BY <1>2, <1>4 DEF E

\* Rows may be added and taken away as its kind allows where nobody is pinned
\* to what goes.
LEMMA RowsWritten ==
    ASSUME Shape, FactInv, FactsAreSettled, NEW t \in Loads,
           NEW c \in Clients \ Changing, NEW H, IsHistory(H),
           \A l \in DOMAIN H : IF l \in DOMAIN History(t, c) THEN H[l] = History(t, c)[l]
                               ELSE l \notin DOMAIN db.snap[c],
           Kind[t] # "facts" => DOMAIN H \ DOMAIN db.snap[c] \subseteq {0},
           Kind[t] # "seed" => DOMAIN db.snap[c] \subseteq DOMAIN H,
           \A l \in DOMAIN db.snap[c] \ DOMAIN H : 0 \in DOMAIN H /\ l < 0 /\ Unpinned(t, c, l),
           \A x \in DOMAIN own[t].pins : FactRow[x].client = c => own[t].pins[x] \in DOMAIN H
    PROVE  /\ Writing(t, c, H) \in Writes
           /\ RowsFit(t, Writing(t, c, H)) /\ PinsFit(t, Writing(t, c, H))
           /\ Read(db.snap[c], Writing(t, c, H).rows[c]) = H
<1> DEFINE base == db.snap[c]
           edit == own[t].rows[c]
           E == Edit(base, H)
           writes == Writing(t, c, H)
<1>1. /\ WritesOfKind(t) /\ NothingOnDeleted(t) /\ PinsCover(t)
      /\ RowsFit(t, own[t]) /\ PinsFit(t, own[t])
  BY SameFits DEF FactInv
<1>2. /\ base \in Histories /\ edit \in Edits /\ History(t, c) = Read(base, edit)
      /\ DOMAIN History(t, c) = (DOMAIN base \ edit.gone) \cup DOMAIN edit.put
  BY HistoryType
<1>3. OfKind(t, base, edit)
  BY <1>1 DEF WritesOfKind
<1>4. /\ DOMAIN E.put = DOMAIN H \ DOMAIN base /\ E.gone = DOMAIN base \ DOMAIN H
      /\ Read(base, E) = H
  <2>1. DOMAIN edit.put \cap DOMAIN base = {}
    BY <1>3 DEF OfKind
  <2>2. \A l \in DOMAIN H : IF l \in DOMAIN Read(base, edit) THEN H[l] = Read(base, edit)[l]
                            ELSE l \notin DOMAIN base
    BY <1>2
  <2> HIDE DEF base, edit, E
  <2> QED BY <1>2, <2>1, <2>2, PlainEdit DEF E
<1>5. /\ writes \in Writes /\ writes.rows[c] = E /\ writes.pins = own[t].pins
      /\ \A d \in Clients : d # c => writes.rows[d] = own[t].rows[d]
  BY WritingIs
<1>6. /\ DOMAIN Pins(t) = DOMAIN db.fact \cup DOMAIN own[t].pins
      /\ \A x \in DOMAIN Pins(t) :
             Pins(t)[x] = IF x \in DOMAIN own[t].pins THEN own[t].pins[x] ELSE db.fact[x]
  BY MarkType
<1>7. OfKind(t, base, E)
  <2> HIDE DEF E
  <2> QED BY <1>4 DEF OfKind
<1>8. ASSUME NEW l \in E.gone
      PROVE  /\ \A x \in DOMAIN writes.pins : FactRow[x].client = c => writes.pins[x] # l
             /\ \A x \in DOMAIN db.fact \ DOMAIN writes.pins :
                   FactRow[x].client = c => db.fact[x] # l
             /\ \A u \in Loads \ {t} : \A x \in DOMAIN own[u].pins :
                   FactRow[x].client = c => own[u].pins[x] # l
  <2>1. Unpinned(t, c, l)
    BY <1>4
  <2> HIDE DEF writes, E
  <2> QED BY <1>5, <1>6, <2>1 DEF Unpinned
<1> HIDE DEF writes, E
<1>10. RowsFit(t, writes)
  BY <1>1, <1>5, <1>7, <1>8 DEF RowsFit
<1>11. ASSUME NEW x \in DOMAIN writes.pins
       PROVE  LET d == FactRow[x].client IN
              /\ Covers(Read(db.snap[d], writes.rows[d]), x, writes.pins[x])
              /\ \A u \in Loads \ {t} : /\ x \notin DOMAIN own[u].pins
                                        /\ writes.pins[x] \notin own[u].rows[d].gone
  <2> DEFINE d == FactRow[x].client
  <2>1. /\ d \in Clients /\ Covers(History(t, d), x, own[t].pins[x])
        /\ \A u \in Loads \ {t} : /\ x \notin DOMAIN own[u].pins
                                  /\ own[t].pins[x] \notin own[u].rows[d].gone
    <3>1. d \in Clients
      BY <1>5, PinnedFacts, FactClients
    <3> QED BY <1>1, <1>5, <3>1 DEF PinsCover, PinsFit
  <2>2. CASE d # c
    BY <1>5, <2>1, <2>2, HistoryReads
  <2>3. CASE d = c
    <3>1. own[t].pins[x] \in DOMAIN H
      BY <1>5, <2>3
    <3>2. own[t].pins[x] \in DOMAIN History(t, c)
      BY <2>1, <2>3 DEF Covers, Covering
    <3>3. Covers(H, x, own[t].pins[x])
      BY <2>1, <2>3, <3>1, <3>2 DEF Covers, Covering
    <3> QED BY <1>4, <1>5, <2>1, <2>3, <3>3
  <2> QED BY <2>2, <2>3
<1>12. PinsFit(t, writes)
  BY <1>11 DEF PinsFit
<1> QED BY <1>4, <1>5, <1>10, <1>12 DEF writes

\* A baseline is inserted beside stopgaps that may then be cleared.
LEMMA BaselineFacts ==
    ASSUME TypeInv, HistoryInv, FactInv, FactsAreSettled, NEW t \in Loads, InsertBaseline(t)
    PROVE  FactInv'
<1> DEFINE j == job[t]
           c == j.item
           G == History(t, c)
           H == WithBaseline(t)
           writes == Writing(t, c, H)
           passed == Passed(t, c)
           repointing == [j EXCEPT !.keys = Stopgaps(G)]
           repoint == "repoint"
           next == "next"
<1>1. /\ Shape /\ CommittedSound /\ ViewSound(t) /\ WorkSound(t)
      /\ InOrder(t, at[t], j, own[t], locks[t])
  BY ItemType DEF TypeInv, HistoryInv
<1>2. /\ at[t] = "baseline" /\ UNCHANGED db
      /\ \/ Moved(t, next, passed, writes, locks[t])
         \/ Stopgaps(G) # {} /\ Moved(t, repoint, repointing, writes, locks[t])
  BY <1>1, BaselineMoves
<1>3. c \in Clients /\ c \in j.pending /\ Kind[t] = "seed"
  BY <1>1, <1>2, ItemType DEF InOrder
<1>4. /\ IsHistory(H) /\ IsHistory(G) /\ DOMAIN H = DOMAIN G \cup {0}
      /\ (\A l \in DOMAIN G : H[l] = G[l])
  BY <1>1, <1>3, WithBaselineType, HistoryType
<1>5. /\ writes \in Writes /\ writes.pins = own[t].pins
      /\ \A d \in Clients : d # c => writes.rows[d] = own[t].rows[d]
  BY <1>1, <1>3, <1>4, WritingIs
<1>6. CASE c \in Changing
  <2>1. Stopgaps(G) = {}
    <3>1. \A l \in DOMAIN G : l >= 0 /\ l \in Int
      BY <1>1, <1>3, <1>4, <1>6 DEF ViewSound, SoundHistory, IsHistory
    <3> HIDE DEF G
    <3> QED BY <3>1 DEF Stopgaps
  <2>2. Moved(t, next, passed, writes, locks[t])
    BY <1>2, <2>1
  <2>3. \A d \in Clients \ Changing : writes.rows[d] = own[t].rows[d]
    BY <1>5, <1>6
  <2>4. next \in {"next", "apply", "reset", "baseline", "stopgap"}
    OBVIOUS
  <2> HIDE DEF writes, passed, next
  <2> QED BY <1>2, <1>5, <2>2, <2>3, <2>4, GoingFacts
<1>7. CASE c \notin Changing
  <2> DEFINE base == db.snap[c]
             edit == own[t].rows[c]
  <2>1. /\ OfKind(t, base, edit) /\ PinsCover(t)
        /\ DOMAIN G = (DOMAIN base \ edit.gone) \cup DOMAIN edit.put
    BY <1>1, <1>3, <1>7, HistoryType DEF FactInv, WritesOfKind
  <2>2. DOMAIN H \ DOMAIN base \subseteq {0}
    <3> HIDE DEF H, G, base, edit
    <3> QED BY <1>3, <1>4, <2>1 DEF OfKind
  <2>3. \A l \in DOMAIN base \ DOMAIN H : 0 \in DOMAIN H /\ l < 0 /\ l \in edit.gone
    <3> HIDE DEF H, G, base, edit
    <3> QED BY <1>4, <2>1 DEF OfKind
  <2>4. \A l \in edit.gone : Unpinned(t, c, l)
    BY <1>3, <1>7 DEF FactInv, NothingOnDeleted, Unpinned
  <2>5. \A l \in DOMAIN H : IF l \in DOMAIN G THEN H[l] = G[l] ELSE l \notin DOMAIN base
    <3> HIDE DEF H, G, base, edit
    <3> QED BY <1>4, <2>1 DEF OfKind
  <2>6. \A x \in DOMAIN own[t].pins : FactRow[x].client = c => own[t].pins[x] \in DOMAIN H
    BY <1>4, <2>1, Zenon DEF PinsCover, Covers, Covering
  <2>7. RowsFit(t, writes) /\ PinsFit(t, writes) /\ Read(base, writes.rows[c]) = H
    <3> HIDE DEF H, c, j
    <3> QED BY <1>1, <1>3, <1>4, <1>7, <2>2, <2>3, <2>4, <2>5, <2>6, RowsWritten
  <2>8. CASE Moved(t, next, passed, writes, locks[t])
    <3>1. KeysFit(next, passed, writes)
      BY DEF KeysFit
    <3> HIDE DEF writes, passed, next
    <3> QED BY <1>2, <1>5, <2>7, <2>8, <3>1, FitsFacts
  <2>9. CASE Moved(t, repoint, repointing, writes, locks[t])
    <3>1. repointing.item = c /\ repointing.keys = Stopgaps(G)
      <4>1. j = [events |-> j.events, pending |-> j.pending, left |-> j.left,
                 orphans |-> j.orphans, item |-> j.item, seen |-> j.seen, keys |-> j.keys]
        BY ItemType
      <4> QED BY <4>1
    <3>2. KeysFit(repoint, repointing, writes)
      <4> HIDE DEF repointing, writes, H, G, c, j
      <4> QED BY <1>4, <2>7, <3>1 DEF KeysFit, Stopgaps
    <3> HIDE DEF writes, repointing, repoint
    <3> QED BY <1>2, <1>5, <2>7, <2>9, <3>2, FitsFacts
  <2> QED BY <1>2, <2>8, <2>9, SMTT(40)
<1> QED BY <1>6, <1>7

\* Stopgaps are deleted that nobody is pinned to.
LEMMA DeletedFacts ==
    ASSUME TypeInv, HistoryInv, FactInv, FactsAreSettled, NEW t \in Loads, Deleted(t)
    PROVE  FactInv'
<1> DEFINE j == job[t]
           c == j.item
           G == History(t, c)
           H == Delete(G, j.keys)
           writes == Writing(t, c, H)
           base == db.snap[c]
           edit == own[t].rows[c]
           work == Passed(t, c)
           step == "next"
<1>1. /\ Shape /\ ViewSound(t) /\ WorkSound(t) /\ InOrder(t, at[t], j, own[t], locks[t])
  BY ItemType DEF TypeInv, HistoryInv
<1>2. /\ at[t] = "delete" /\ Free(t) /\ UNCHANGED db /\ PinnedTo(t, c, j.keys) = {}
      /\ Moved(t, step, work, writes, locks[t])
  BY DEF Deleted
<1>3. c \in Clients \ Changing /\ Kind[t] = "seed"
  BY <1>1, <1>2, ItemType DEF InOrder, WorkSound
<1>4. /\ IsHistory(H) /\ DOMAIN H = DOMAIN G \ j.keys
      /\ \A l \in DOMAIN G \ j.keys : H[l] = G[l]
  BY <1>1, <1>3, DeletedType, SMTT(40)
<1>5. /\ OfKind(t, base, edit) /\ PinsCover(t)
      /\ DOMAIN G = (DOMAIN base \ edit.gone) \cup DOMAIN edit.put
  BY <1>1, <1>3, HistoryType, Zenon DEF FactInv, WritesOfKind
<1>6. 0 \in DOMAIN G /\ \A l \in j.keys : l < 0
  BY <1>2, <1>5, Zenon DEF PinsCover
<1>7. ASSUME NEW l \in j.keys PROVE Unpinned(t, c, l)
  <2>1. \A x \in DOMAIN Pins(t) : FactRow[x].client = c => Pins(t)[x] # l
    BY <1>2 DEF PinnedTo
  <2>2. ASSUME NEW u \in Loads \ {t}, NEW x \in DOMAIN own[u].pins,
               FactRow[x].client = c, own[u].pins[x] = l
        PROVE  FALSE
    <3>1. <<"pinned", FactRow[x].client, own[u].pins[x]>> \in Holds(u)
      BY HoldsIs
    <3>2. <<"pinned", c, l>> \in Wants(t)
      BY <1>2, WantsIs
    <3> HIDE DEF c
    <3> QED BY <1>2, <2>2, <3>1, <3>2, FreeMeans
  <2> QED BY <2>1, <2>2 DEF Unpinned
<1>8. \A l \in edit.gone : Unpinned(t, c, l)
  BY <1>3 DEF FactInv, NothingOnDeleted, Unpinned
<1>9. \A l \in DOMAIN H : IF l \in DOMAIN G THEN H[l] = G[l] ELSE l \notin DOMAIN base
  BY <1>4
<1>10. DOMAIN H \ DOMAIN base \subseteq {0}
  <2> HIDE DEF H, G, base, edit
  <2> QED BY <1>3, <1>4, <1>5 DEF OfKind
<1>11. \A l \in DOMAIN base \ DOMAIN H : 0 \in DOMAIN H /\ l < 0 /\ Unpinned(t, c, l)
  <2> HIDE DEF H, G, base, edit
  <2>1. 0 \in DOMAIN H
    BY <1>4, <1>6
  <2>2. \A l \in DOMAIN base \ DOMAIN H : l \in edit.gone \/ l \in j.keys
    BY <1>4, <1>5
  <2>3. \A l \in edit.gone : l < 0
    BY <1>5 DEF OfKind
  <2> QED BY <1>6, <1>7, <1>8, <2>1, <2>2, <2>3
<1>12. \A x \in DOMAIN own[t].pins : FactRow[x].client = c => own[t].pins[x] \in DOMAIN H
  <2>1. SUFFICES ASSUME NEW x \in DOMAIN own[t].pins, FactRow[x].client = c
                 PROVE  own[t].pins[x] \in DOMAIN H
    OBVIOUS
  <2>2. x \in DOMAIN Pins(t) /\ Pins(t)[x] = own[t].pins[x]
    BY <1>1, MarkType, Zenon
  <2>3. own[t].pins[x] \notin j.keys
    BY <1>7, <2>1, <2>2 DEF Unpinned
  <2>4. own[t].pins[x] \in DOMAIN G
    BY <1>5, <2>1, Zenon DEF PinsCover, Covers, Covering
  <2> QED BY <1>4, <2>3, <2>4
<1>13. /\ RowsFit(t, writes) /\ PinsFit(t, writes) /\ writes \in Writes
  <2> HIDE DEF H, c, j
  <2> QED BY <1>1, <1>3, <1>4, <1>9, <1>10, <1>11, <1>12, RowsWritten
<1>14. KeysFit(step, work, writes)
  BY DEF KeysFit
<1> HIDE DEF writes, work, step
<1> QED BY <1>2, <1>13, <1>14, FitsFacts

\* A stopgap is inserted where none was, and its fact is to be pinned to a row
\* that covers it.
LEMMA StopgapFacts ==
    ASSUME TypeInv, LockInv, KnownInv, FactInv, FactsAreSettled, NEW t \in Loads,
           StopgapInserted(t)
    PROVE  FactInv'
<1> DEFINE j == job[t]
           c == FactRow[j.item].client
           G == HistoryOfItem(t)
           base == db.snap[c]
           edit == own[t].rows[c]
           step == "pin"
<1>1. /\ Shape /\ StopgapsLocked(t) /\ StaysKnown(t) /\ InOrder(t, at[t], j, own[t], locks[t])
      /\ j = [events |-> j.events, pending |-> j.pending, left |-> j.left,
              orphans |-> j.orphans, item |-> j.item, seen |-> j.seen, keys |-> j.keys]
  BY ItemType DEF TypeInv, LockInv, KnownInv
<1>2. at[t] = "insert" /\ UNCHANGED db
  BY DEF StopgapInserted
<1>3. PICK lsn \in j.keys :
          \E l \in Covering(WithStopgap(t, lsn), FactRow[j.item].event_ts) :
             Moved(t, step, [j EXCEPT !.keys = {l}], Writing(t, c, WithStopgap(t, lsn)), locks[t])
  BY DEF StopgapInserted
<1> DEFINE H == WithStopgap(t, lsn)
           writes == Writing(t, c, H)
<1>4. PICK l \in Covering(H, FactRow[j.item].event_ts) :
          Moved(t, step, [j EXCEPT !.keys = {l}], writes, locks[t])
  BY <1>3
<1> DEFINE work == [j EXCEPT !.keys = {l}]
<1>5. j.item \in Facts /\ lsn \in Int /\ c \in Clients \ Changing /\ Kind[t] = "facts"
  BY <1>1, <1>2, ItemType, FactClients DEF InOrder
<1>6. lsn < 0 /\ lsn \notin DOMAIN G /\ G = History(t, c)
  BY <1>1, <1>2 DEF StopgapsLocked, StaysKnown, HistoryOfItem
<1>7. /\ IsHistory(H) /\ DOMAIN H = DOMAIN G \cup {lsn}
      /\ \A k \in DOMAIN G : H[k] = G[k]
  BY <1>1, <1>5, WithStopgapType, Zenon
<1>8. /\ OfKind(t, base, edit) /\ PinsCover(t)
      /\ DOMAIN G = (DOMAIN base \ edit.gone) \cup DOMAIN edit.put
  BY <1>1, <1>5, <1>6, HistoryType, ZenonT(60) DEF FactInv, WritesOfKind
<1>9. DOMAIN base \subseteq DOMAIN G
  BY <1>5, <1>8, ZenonT(60) DEF OfKind
<1>11. \A k \in DOMAIN H : IF k \in DOMAIN History(t, c) THEN H[k] = History(t, c)[k]
                           ELSE k \notin DOMAIN base
  <2> HIDE DEF H, G, base, c
  <2> QED BY <1>6, <1>7, <1>9
<1>12. DOMAIN base \subseteq DOMAIN H
  BY <1>7, <1>9, SMTT(40)
<1>13. \A x \in DOMAIN own[t].pins : FactRow[x].client = c => own[t].pins[x] \in DOMAIN H
  BY <1>6, <1>7, <1>8, Zenon DEF PinsCover, Covers, Covering
<1>14. /\ RowsFit(t, writes) /\ PinsFit(t, writes) /\ writes \in Writes
       /\ Read(base, writes.rows[c]) = H
  <2>1. /\ Kind[t] # "facts" => DOMAIN H \ DOMAIN base \subseteq {0}
        /\ \A k \in DOMAIN base \ DOMAIN H : 0 \in DOMAIN H /\ k < 0 /\ Unpinned(t, c, k)
    BY <1>5, <1>12
  <2> HIDE DEF H, c
  <2> QED BY <1>1, <1>5, <1>7, <1>11, <1>12, <1>13, <2>1, RowsWritten
<1>15. KeysFit(step, work, writes)
  <2>1. work.item = j.item /\ work.keys = {l}
    BY <1>1
  <2> HIDE DEF work, writes, H
  <2> QED BY <1>4, <1>14, <2>1 DEF KeysFit, Covers
<1>16. Moved(t, step, work, writes, locks[t])
  BY <1>4
<1> HIDE DEF writes, work, step
<1> QED BY <1>2, <1>14, <1>15, <1>16, FitsFacts

\* Facts may be pinned to a version that covers them and that nobody deletes,
\* where nobody else is pinning them.
LEMMA PinsWritten ==
    ASSUME Shape, FactInv, FactsAreSettled, NEW t \in Loads,
           NEW X \in SUBSET Facts, NEW l \in Int, NEW c \in Clients \ Changing,
           \A x \in X : FactRow[x].client = c /\ Covers(History(t, c), x, l),
           \A u \in Loads \ {t} : /\ X \cap DOMAIN own[u].pins = {}
                                  /\ l \notin own[u].rows[c].gone,
           l \notin own[t].rows[c].gone
    PROVE  /\ PinnedAs(t, X, l) \in Writes
           /\ RowsFit(t, PinnedAs(t, X, l)) /\ PinsFit(t, PinnedAs(t, X, l))
           /\ PinnedAs(t, X, l).rows = own[t].rows
<1> DEFINE writes == PinnedAs(t, X, l)
           w == own[t]
<1>1. /\ writes \in Writes /\ writes.rows = w.rows
      /\ DOMAIN writes.pins = DOMAIN w.pins \cup X
      /\ \A x \in DOMAIN w.pins \cup X : writes.pins[x] = IF x \in X THEN l ELSE w.pins[x]
  <2>1. Shape /\ X \in SUBSET Facts /\ l \in Int
    OBVIOUS
  <2>2. PinnedAs(t, X, l) \in Writes /\ PinnedAs(t, X, l).rows = own[t].rows
    BY ONLY <2>1, PinningType, t \in Loads
  <2>3. DOMAIN PinnedAs(t, X, l).pins = DOMAIN own[t].pins \cup X
    BY ONLY <2>1, PinningType, t \in Loads, ZenonT(60)
  <2>4. \A x \in DOMAIN own[t].pins \cup X :
            PinnedAs(t, X, l).pins[x] = IF x \in X THEN l ELSE own[t].pins[x]
    BY ONLY <2>1, PinningType, t \in Loads, ZenonT(60)
  <2> QED BY <2>2, <2>3, <2>4
<1>2. RowsFit(t, w) /\ PinsFit(t, w)
  BY SameFits
<1> HIDE DEF writes
<1>3. RowsFit(t, writes)
  <2>1. SUFFICES ASSUME NEW d \in Clients \ Changing, NEW k \in w.rows[d].gone
                 PROVE  /\ \A x \in DOMAIN writes.pins :
                              FactRow[x].client = d => writes.pins[x] # k
                        /\ \A x \in DOMAIN db.fact \ DOMAIN writes.pins :
                              FactRow[x].client = d => db.fact[x] # k
    BY <1>1, <1>2 DEF RowsFit
  <2>2. /\ \A x \in DOMAIN w.pins : FactRow[x].client = d => w.pins[x] # k
        /\ \A x \in DOMAIN db.fact \ DOMAIN w.pins : FactRow[x].client = d => db.fact[x] # k
    BY <1>2, <2>1 DEF RowsFit
  <2> QED BY <1>1, <2>1, <2>2
<1>4. PinsFit(t, writes)
  <2>1. SUFFICES ASSUME NEW x \in DOMAIN writes.pins
                 PROVE  LET d == FactRow[x].client IN
                        /\ Covers(Read(db.snap[d], w.rows[d]), x, writes.pins[x])
                        /\ \A u \in Loads \ {t} : /\ x \notin DOMAIN own[u].pins
                                                  /\ writes.pins[x] \notin own[u].rows[d].gone
    BY <1>1 DEF PinsFit
  <2>2. CASE x \in X
    BY <1>1, <2>1, <2>2, HistoryReads
  <2>3. CASE x \notin X
    BY <1>1, <1>2, <2>1, <2>3 DEF PinsFit
  <2> QED BY <2>2, <2>3
<1> QED BY <1>1, <1>3, <1>4 DEF writes

\* A seed repoints to the baseline, which covers every date and is never
\* deleted; a fact load pins to the version it found, which is there still.
LEMMA PinningFacts ==
    ASSUME TypeInv, HistoryInv, FactInv, FactsAreSettled, NEW t \in Loads,
           Repoint(t) \/ Pinned(t)
    PROVE  FactInv'
<1> DEFINE j == job[t]
           i == j.item
<1>1. /\ Shape /\ CommittedSound /\ ViewSound(t) /\ WorkSound(t)
      /\ InOrder(t, at[t], j, own[t], locks[t])
      /\ WritesOfKind(t) /\ PinsCover(t)
  BY ItemType DEF TypeInv, HistoryInv, FactInv
<1>2. CASE Repoint(t)
  <2> DEFINE X == PinnedTo(t, i, j.keys)
             zero == 0
             writes == PinnedAs(t, X, zero)
             step == "delete"
  <2>1. at[t] = "repoint" /\ Free(t) /\ UNCHANGED db /\ Moved(t, step, j, writes, locks[t])
    BY <1>1, <1>2, RepointMoves
  <2>2. /\ i \in Clients \ Changing /\ X \in SUBSET Facts /\ zero \in Int
        /\ 0 \in DOMAIN History(t, i) /\ \A k \in j.keys : k < 0
    <3>1. i \in Clients /\ Kind[t] = "seed"
      BY <1>1, <2>1, ItemType DEF InOrder
    <3>2. i \notin Changing
      BY <1>1, <2>1, <3>1 DEF WorkSound
    <3>3. 0 \in DOMAIN History(t, i) /\ \A k \in j.keys : k < 0
      BY <1>1, <2>1 DEF PinsCover
    <3> QED BY <1>1, <3>1, <3>2, <3>3, PinnedToType
  <2>3. ASSUME NEW x \in X PROVE FactRow[x].client = i /\ Covers(History(t, i), x, zero)
    <3>1. FactRow[x].client = i /\ x \in Facts
      BY <2>2 DEF PinnedTo
    <3>2. FactRow[x].event_ts \in Nat /\ FactRow[x].event_ts < Forever
      BY <3>1, LogType DEF FactsAreSettled
    <3>3. QuietHistory(History(t, i))
      BY <1>1, <2>2, QuietRead
    <3>4. History(t, i)[0].valid_from = Epoch /\ History(t, i)[0].valid_to = Forever
      BY <2>2, <3>3 DEF QuietHistory
    <3> QED BY <2>2, <3>1, <3>2, <3>4 DEF Covers, Covering, Epoch
  <2>4. ASSUME NEW u \in Loads \ {t} PROVE X \cap DOMAIN own[u].pins = {}
    <3>1. SUFFICES ASSUME NEW x \in X, x \in DOMAIN own[u].pins PROVE FALSE
      OBVIOUS
    <3>2. <<"fact", x>> \in Holds(u) /\ <<"fact", x>> \in Wants(t)
      BY <2>1, <3>1, HoldsIs, WantsIs
    <3> QED BY <2>1, <3>2, FreeMeans
  <2>5. \A u \in Loads : zero \notin own[u].rows[i].gone
    BY <2>2 DEF FactInv, WritesOfKind, OfKind
  <2>6. /\ writes \in Writes /\ RowsFit(t, writes) /\ PinsFit(t, writes)
        /\ writes.rows = own[t].rows
    <3> HIDE DEF X, zero, i
    <3> QED BY <1>1, <2>2, <2>3, <2>4, <2>5, PinsWritten
  <2>7. KeysFit(step, j, writes)
    <3>1. Read(db.snap[i], writes.rows[i]) = History(t, i)
      BY <2>6, HistoryReads
    <3> HIDE DEF writes
    <3> QED BY <2>2, <3>1 DEF KeysFit
  <2> HIDE DEF writes, step, j
  <2> QED BY <2>1, <2>6, <2>7, FitsFacts
<1>3. CASE Pinned(t)
  <2> DEFINE c == FactRow[i].client
             X == {i}
             work == [j EXCEPT !.left = @ \ {i}, !.item = None, !.keys = {}]
             step == "next"
  <2>1. at[t] = "pin" /\ Free(t) /\ UNCHANGED db
    BY <1>3 DEF Pinned
  <2>2. PICK l \in j.keys : Moved(t, step, work, PinnedAs(t, X, l), locks[t])
    BY <1>3 DEF Pinned
  <2> DEFINE writes == PinnedAs(t, X, l)
  <2>3. i \in Facts /\ c \in Clients \ Changing /\ Kind[t] = "facts" /\ l \in Int
    BY <1>1, <2>1, <2>2, ItemType, FactClients, ZenonT(60) DEF InOrder
  <2>5. Covers(History(t, c), i, l)
    BY <1>1, <2>1, <2>2, <2>3 DEF PinsCover
  <2>6. ASSUME NEW u \in Loads \ {t}
        PROVE  X \cap DOMAIN own[u].pins = {} /\ l \notin own[u].rows[c].gone
    <3>1. <<"fact", i>> \in Wants(t) /\ <<"gone", c, l>> \in Wants(t)
      <4>1. at[t] = "pin" /\ l \in job[t].keys
        BY <2>1, <2>2
      <4> QED BY ONLY <4>1, WantsIs, t \in Loads
    <3>2. SUFFICES ASSUME i \in DOMAIN own[u].pins \/ l \in own[u].rows[c].gone PROVE FALSE
      OBVIOUS
    <3>3. <<"fact", i>> \in Holds(u) \/ <<"gone", c, l>> \in Holds(u)
      BY <2>3, <3>2, HoldsIs
    <3> HIDE DEF i, c
    <3> QED BY <2>1, <3>1, <3>3, FreeMeans
  <2>7. l \notin own[t].rows[c].gone
    BY <1>1, <2>3 DEF WritesOfKind, OfKind
  <2>8. writes \in Writes /\ RowsFit(t, writes) /\ PinsFit(t, writes)
    <3>1. \A x \in X : FactRow[x].client = c /\ Covers(History(t, c), x, l)
      BY <2>5
    <3>2. X \in SUBSET Facts
      BY <2>3
    <3> HIDE DEF X, c
    <3> QED BY <1>1, <2>3, <2>6, <2>7, <3>1, <3>2, PinsWritten
  <2>9. KeysFit(step, work, writes)
    BY DEF KeysFit
  <2>10. Moved(t, step, work, writes, locks[t])
    BY <2>2, SMTT(40)
  <2> HIDE DEF writes, work, step
  <2> QED BY <2>1, <2>8, <2>9, <2>10, FitsFacts
<1> QED BY <1>2, <1>3

\* What a commit leaves of a quiet client's history is what it was, less the
\* rows deleted; what another load reads changes in the same way.
LEMMA CommittedRows ==
    ASSUME Shape, FactInv, NEW t \in Loads, NEW c \in Clients \ Changing
    PROVE  /\ own[t].rows[c].gone \subseteq DOMAIN db.snap[c]
           /\ \A l \in own[t].rows[c].gone : l < 0 /\ l \notin DOMAIN History(t, c)
           /\ \A l \in DOMAIN own[t].rows[c].put : l \notin DOMAIN db.snap[c]
           /\ \A l : l \in DOMAIN History(t, c) <=>
                        \/ l \in DOMAIN db.snap[c] /\ l \notin own[t].rows[c].gone
                        \/ l \in DOMAIN own[t].rows[c].put
           /\ \A l \in DOMAIN db.snap[c] \ own[t].rows[c].gone :
                 History(t, c)[l] = db.snap[c][l]
           /\ 0 \in DOMAIN db.snap[c] => 0 \in DOMAIN History(t, c)
           /\ own[t].rows[c].gone # {} => 0 \in DOMAIN History(t, c)
<1> DEFINE base == db.snap[c]
           edit == own[t].rows[c]
           H == History(t, c)
<1>1. /\ base \in Histories /\ edit \in Edits /\ H = Read(base, edit)
      /\ DOMAIN H = (DOMAIN base \ edit.gone) \cup DOMAIN edit.put
  BY HistoryType
<1>2. OfKind(t, base, edit)
  BY DEF FactInv, WritesOfKind
<1> HIDE DEF base, edit, H
<1>3. \A l \in DOMAIN Read(base, edit) :
         Read(base, edit)[l] = IF l \in DOMAIN edit.put THEN edit.put[l] ELSE base[l]
  BY <1>1, ReadType
<1> QED BY <1>1, <1>2, <1>3 DEF OfKind, base, edit, H

\* A commit publishes what its load has pinned, on versions that are published
\* with it; others' pins and writes stay right on the rows it leaves.
LEMMA CommitFacts ==
    ASSUME TypeInv, LockInv, HistoryInv, FactInv, FactsAreSettled, NEW t \in Loads, Commit(t)
    PROVE  FactInv'
<1>1. /\ Shape /\ db' \in Tables
      /\ db'.snap = [c \in Clients |-> History(t, c)] /\ db'.fact = Pins(t)
      /\ WritesOfKind(t) /\ NothingOnDeleted(t) /\ PinsCover(t) /\ MovedAside(t)
  <2>1. Shape /\ WritesOfKind(t) /\ NothingOnDeleted(t) /\ PinsCover(t)
    BY DEF TypeInv, FactInv
  <2> QED BY <2>1, CommitMoves
<1>2. /\ at'[t] = "committed" /\ job'[t] = NoWork /\ own'[t] = NoWrites
      /\ \A u \in Loads \ {t} :
            /\ at'[u] = at[u] /\ own'[u] = own[u] /\ job'[u].item = job[u].item
            /\ job'[u].keys = KeysLeft(u, t) /\ job'[u].keys \subseteq job[u].keys
  BY <1>1 DEF MovedAside, SameWork
<1>4. \A c \in Clients : db'.snap[c] = History(t, c)
  BY <1>1
<1>5. /\ DOMAIN Pins(t) = DOMAIN db.fact \cup DOMAIN own[t].pins
      /\ \A x \in DOMAIN Pins(t) :
             Pins(t)[x] = IF x \in DOMAIN own[t].pins THEN own[t].pins[x] ELSE db.fact[x]
      /\ DOMAIN Pins(t) \subseteq Facts
  BY <1>1, MarkType, PartialIs DEF Pinnings
<1>6. \A x \in DOMAIN db'.fact : Covers(db'.snap[FactRow[x].client], x, db'.fact[x])
  <2>1. SUFFICES ASSUME NEW x \in DOMAIN Pins(t), NEW c \in Clients \ Changing,
                        c = FactRow[x].client
                 PROVE  Covers(History(t, c), x, Pins(t)[x])
    BY <1>1, <1>4, <1>5, FactClients
  <2>2. CASE x \in DOMAIN own[t].pins
    BY <1>1, <1>5, <2>1, <2>2 DEF PinsCover
  <2>3. CASE x \notin DOMAIN own[t].pins
    <3>1. x \in DOMAIN db.fact /\ Pins(t)[x] = db.fact[x] /\ Covers(db.snap[c], x, db.fact[x])
      BY <1>5, <2>1, <2>3 DEF FactInv
    <3>2. Pins(t)[x] \notin own[t].rows[c].gone
      BY <1>1, <2>1 DEF NothingOnDeleted, Unpinned
    <3> QED BY <1>1, <3>1, <3>2, CommittedRows DEF Covers, Covering
  <2> QED BY <2>2, <2>3
<1>7. WritesOfKind(t)' /\ NothingOnDeleted(t)' /\ PinsCover(t)'
  <2>1. WritesOfKind(t)'
    BY <1>2, NothingType DEF WritesOfKind, OfKind
  <2>2. NothingOnDeleted(t)'
    BY <1>2, NothingType DEF NothingOnDeleted, Unpinned
  <2>3. PinsCover(t)'
    BY <1>2, NothingType DEF PinsCover
  <2> QED BY <2>1, <2>2, <2>3
<1>10. ASSUME NEW u \in Loads \ {t} PROVE WritesOfKind(u)' /\ NothingOnDeleted(u)' /\ PinsCover(u)'
  <2>1. /\ at'[u] = at[u] /\ own'[u] = own[u] /\ job'[u].item = job[u].item
        /\ job'[u].keys = KeysLeft(u, t) /\ job'[u].keys \subseteq job[u].keys
        /\ WritesOfKind(u) /\ NothingOnDeleted(u) /\ PinsCover(u)
    BY <1>2 DEF FactInv
  <2>2. ASSUME NEW c \in Clients \ Changing
        PROVE  Touched(own[u].rows[c]) \cap Touched(own[t].rows[c]) = {}
    BY DEF LockInv, RowsLocked
  <2>3. WritesOfKind(u)'
    <3>1. SUFFICES ASSUME NEW c \in Clients \ Changing
                   PROVE  OfKind(u, db'.snap[c], own[u].rows[c])
      BY <2>1 DEF WritesOfKind
    <3>2. OfKind(u, db.snap[c], own[u].rows[c])
      BY <2>1 DEF WritesOfKind
    <3>3. /\ DOMAIN own[u].rows[c].put \cap DOMAIN db'.snap[c] = {}
          /\ own[u].rows[c].gone \subseteq DOMAIN db'.snap[c]
      BY <1>1, <1>4, <2>2, <3>2, CommittedRows DEF OfKind, Touched
    <3>4. 0 \in DOMAIN db.snap[c] => 0 \in DOMAIN db'.snap[c]
      BY <1>1, <1>4, CommittedRows
    <3> QED BY <3>2, <3>3, <3>4 DEF OfKind
  <2>4. NothingOnDeleted(u)'
    <3>1. /\ DOMAIN Pins(u)' = DOMAIN Pins(t) \cup DOMAIN own[u].pins
          /\ \A x \in DOMAIN Pins(u)' :
                 Pins(u)'[x] = IF x \in DOMAIN own[u].pins THEN own[u].pins[x] ELSE Pins(t)[x]
      <4> DEFINE below == Pins(t)
                 above == own[u].pins
      <4>1. Pins(u)' = Overlay(below, above)
        BY <1>1, <2>1 DEF Pins
      <4>2. /\ DOMAIN Overlay(below, above) = DOMAIN below \cup DOMAIN above
            /\ \A x \in DOMAIN below \cup DOMAIN above :
                  Overlay(below, above)[x] = IF x \in DOMAIN above THEN above[x] ELSE below[x]
        BY OverlayIs
      <4> HIDE DEF below, above
      <4> QED BY <4>1, <4>2 DEF below, above
    <3>2. /\ DOMAIN Pins(u) = DOMAIN db.fact \cup DOMAIN own[u].pins
          /\ \A x \in DOMAIN Pins(u) :
                 Pins(u)[x] = IF x \in DOMAIN own[u].pins THEN own[u].pins[x] ELSE db.fact[x]
      BY <1>1, MarkType
    <3>3. SUFFICES ASSUME NEW c \in Clients \ Changing, NEW l \in own[u].rows[c].gone
                   PROVE  /\ \A x \in DOMAIN Pins(u)' : FactRow[x].client = c => Pins(u)'[x] # l
                          /\ \A v \in Loads \ {u} : \A x \in DOMAIN own'[v].pins :
                                FactRow[x].client = c => own'[v].pins[x] # l
      BY <2>1 DEF NothingOnDeleted, Unpinned
    <3>4. /\ \A x \in DOMAIN Pins(u) : FactRow[x].client = c => Pins(u)[x] # l
          /\ \A v \in Loads \ {u} : \A x \in DOMAIN own[v].pins :
                FactRow[x].client = c => own[v].pins[x] # l
      BY <2>1, <3>3 DEF NothingOnDeleted, Unpinned
    <3>5. \A x \in DOMAIN Pins(u)' : FactRow[x].client = c => Pins(u)'[x] # l
      BY <1>5, <3>1, <3>2, <3>4
    <3>6. \A v \in Loads \ {u} : \A x \in DOMAIN own'[v].pins :
              FactRow[x].client = c => own'[v].pins[x] # l
      BY <1>2, <3>4, NothingType
    <3> QED BY <3>5, <3>6
  <2>5. ASSUME NEW c \in Clients \ Changing, NEW l \in DOMAIN History(u, c),
               l \notin own[t].rows[c].gone
        PROVE  l \in DOMAIN History(u, c)' /\ History(u, c)'[l] = History(u, c)[l]
    <3> DEFINE base == db.snap[c]
               next == db'.snap[c]
               edit == own[u].rows[c]
    <3>1. /\ base \in Histories /\ next \in Histories /\ edit \in Edits
          /\ History(u, c) = Read(base, edit) /\ History(u, c)' = Read(next, edit)
      <4>1. next \in Histories
        BY <1>1 DEF Tables
      <4> QED BY <1>1, <2>1, <4>1, HistoryType DEF History, Read
    <3>2. l \in DOMAIN base => l \in DOMAIN next /\ next[l] = base[l]
      BY <1>1, <1>4, <2>5, CommittedRows
    <3>3. l \in DOMAIN Read(base, edit)
      BY <2>5, <3>1
    <3> HIDE DEF base, next, edit
    <3>4. ASSUME NEW table \in Histories
          PROVE  /\ DOMAIN Read(table, edit) = (DOMAIN table \ edit.gone) \cup DOMAIN edit.put
                 /\ \A k \in DOMAIN Read(table, edit) : Read(table, edit)[k] =
                        IF k \in DOMAIN edit.put THEN edit.put[k] ELSE table[k]
      BY <3>1, ReadType
    <3>5. l \in DOMAIN Read(next, edit)
      BY <3>1, <3>2, <3>3, <3>4, ZenonT(60)
    <3>6. Read(next, edit)[l] = Read(base, edit)[l]
      BY <3>1, <3>2, <3>3, <3>4, <3>5, ZenonT(60)
    <3> QED BY <3>1, <3>5, <3>6, SMTT(40)
  <2>6. ASSUME NEW c \in Clients \ Changing, NEW x, NEW l, Covers(History(u, c), x, l),
               l \notin own[t].rows[c].gone
        PROVE  Covers(History(u, c)', x, l)
    BY <2>5, <2>6 DEF Covers, Covering
  <2>7. PinsCover(u)'
    <3>1. ASSUME NEW x \in DOMAIN own[u].pins, NEW c \in Clients, c = FactRow[x].client
          PROVE  Covers(History(u, c)', x, own[u].pins[x])
      <4>1. c \in Clients \ Changing
        BY <1>1, <3>1, LoadType, PinnedFacts, FactClients
      <4>2. own[u].pins[x] \notin own[t].rows[c].gone
        BY <1>1, <3>1, <4>1 DEF NothingOnDeleted, Unpinned
      <4>3. Covers(History(u, c), x, own[u].pins[x])
        BY <2>1, <3>1 DEF PinsCover
      <4> QED BY <2>6, <4>1, <4>2, <4>3
    <3>2. \A x \in DOMAIN own[u].pins : FactRow[x].client \in Clients
      BY <1>1, LoadType, PinnedFacts, FactClients
    <3>3. \A v \in Loads \ {u} : DOMAIN own[u].pins \cap DOMAIN own'[v].pins = {}
      BY <1>2, <2>1, NothingType DEF PinsCover
    <3>4. ASSUME at[u] = "pin", NEW c \in Clients, NEW l \in job'[u].keys,
                 FactRow[job[u].item].client = c
          PROVE  Covers(History(u, c)', job[u].item, l)
      <4>1. c \in Clients \ Changing
        BY <3>4, ItemType, FactClients
      <4>2. Covers(History(u, c), job[u].item, l)
        BY <2>1, <3>4 DEF PinsCover
      <4>3. l \notin own[t].rows[c].gone
        BY <2>1, <3>4 DEF KeysLeft
      <4> QED BY <2>6, <4>1, <4>2, <4>3
    <3>5. ASSUME at[u] \in {"repoint", "delete"}, NEW c, c = job[u].item
          PROVE  0 \in DOMAIN History(u, c)' /\ \A l \in job'[u].keys : l < 0
      <4>1. c \in Clients \ Changing
        BY <3>5, ItemType DEF InOrder, HistoryInv, WorkSound
      <4>2. 0 \notin own[t].rows[c].gone
        BY <1>1, <4>1, CommittedRows
      <4>3. 0 \in DOMAIN History(u, c) /\ \A l \in job[u].keys : l < 0
        BY <2>1, <3>5 DEF PinsCover
      <4> QED BY <2>1, <2>5, <4>1, <4>2, <4>3
    <3>6. \A c : History(u, c)' = Overlay(Delete(db'.snap[c], own[u].rows[c].gone), own[u].rows[c].put)
      BY <2>1 DEF History
    <3> QED BY <2>1, <3>1, <3>2, <3>3, <3>4, <3>5 DEF PinsCover
  <2> QED BY <2>3, <2>4, <2>7
<1> QED BY <1>6, <1>7, <1>10 DEF FactInv

\* Every step keeps it.
LEMMA NextFacts ==
    ASSUME TypeInv, LockInv, KnownInv, HistoryInv, FactInv, FactsAreSettled, [Next]_vars
    PROVE  FactInv'
<1>1. Shape
  BY DEF TypeInv
<1>2. CASE UNCHANGED vars
  <2>1. db' = db /\ at' = at /\ job' = job /\ own' = own
    BY <1>2 DEF vars
  <2>2. ASSUME NEW t \in Loads
        PROVE  WritesOfKind(t)' /\ NothingOnDeleted(t)' /\ PinsCover(t)'
    <3>1. (\A c : History(t, c)' = History(t, c)) /\ Pins(t)' = Pins(t)
      BY <2>1 DEF History, Pins
    <3>2. WritesOfKind(t) /\ NothingOnDeleted(t) /\ PinsCover(t)
      BY DEF FactInv
    <3>3. WritesOfKind(t)' /\ NothingOnDeleted(t)'
      BY <2>1, <3>1, <3>2 DEF WritesOfKind, NothingOnDeleted, Unpinned, OfKind
    <3>4. PinsCover(t)'
      BY <2>1, <3>1, <3>2 DEF PinsCover, Covers
    <3> QED BY <3>3, <3>4
  <2>3. \A x \in DOMAIN db'.fact : Covers(db'.snap[FactRow[x].client], x, db'.fact[x])
    BY <2>1 DEF FactInv
  <2> QED BY <2>2, <2>3 DEF FactInv
<1>3. CASE Next
  <2>1. PICK t \in Loads : StepOf(t)
    BY <1>1, <1>3, NextIs
  <2>2. CASE Ends(t) \/ Collision(t) \/ Unresolved(t)
    <3>1. UNCHANGED db /\ \E why \in Failures : Moved(t, why, NoWork, NoWrites, {})
      BY <2>2 DEF Ends, Collision, Unresolved, Failures
    <3> QED BY <3>1, EndFacts
  <2>3. CASE Commit(t)
    BY <2>3, CommitFacts
  <2>4. CASE \/ Begin(t) \/ RejectStale(t) \/ Applied(t) \/ Reset(t) \/ BeginOrphans(t)
             \/ \E l \in Lsns : LockEvent(t, l)
             \/ \E c \in Clients : LockForReset(t, c) \/ CheckHistory(t, c)
    BY <2>4, OtherFacts
  <2>5. CASE StopgapAllowed(t) \/ AllocateStopgap(t) \/ \E x \in Facts : Resolve(t, x)
    BY <2>5, ResolvedFacts
  <2>6. CASE InsertBaseline(t) \/ Deleted(t) \/ StopgapInserted(t)
    BY <2>6, BaselineFacts, DeletedFacts, StopgapFacts
  <2>7. CASE Repoint(t) \/ Pinned(t)
    BY <2>7, PinningFacts
  <2> QED BY <2>1, <2>2, <2>3, <2>4, <2>5, <2>6, <2>7 DEF StepOf
<1> QED BY <1>2, <1>3

\* At first nothing is pinned and nothing is written.
LEMMA InitFacts ==
    ASSUME Init
    PROVE  FactInv
<1>1. \A t \in Loads : at[t] = "ready" /\ own[t] = NoWrites
  BY DEF Init
<1>2. DOMAIN db.fact = {}
  BY DEF Init, Empty
<1>3. \A t \in Loads : WritesOfKind(t) /\ NothingOnDeleted(t)
  BY <1>1, NothingType DEF WritesOfKind, NothingOnDeleted, Unpinned, OfKind
<1>4. \A t \in Loads : PinsCover(t)
  BY <1>1, NothingType DEF PinsCover
<1> QED BY <1>2, <1>3, <1>4 DEF FactInv

\* When facts are of clients that do not change, every committed fact is on a
\* committed version that covers its date, whichever fact loads insert stopgaps
\* and whichever seeds clear them meanwhile.
THEOREM FactsTheorem ==
    ASSUME BaselinesComeFirst, FactsAreSettled
    PROVE  Spec => []CommittedFactsInEffect
<1> DEFINE Inv == TypeInv /\ LockInv /\ KnownInv /\ HistoryInv /\ FactInv
<1> FactsOfKnownClients
  BY DEF FactsOfKnownClients, FactsAreSettled
<1>1. Init => Inv
  BY InitType, InitLocks, InitKnown, InitHistory, InitFacts
<1>2. Inv /\ [Next]_vars => Inv'
  BY NextType, NextLocks, NextKnown, NextHistory, NextFacts
<1>3. Inv => CommittedFactsInEffect
  BY DEF FactInv, Covers, CommittedFactsInEffect
<1> HIDE DEF Inv
<1> QED BY <1>1, <1>2, <1>3, PTL DEF Spec
=============================================================================
