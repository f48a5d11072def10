--------------------------- MODULE SnapshotTable ---------------------------
(***************************************************************************)
(* warehouse.dim_client_risk_snapshot as seen by one client: the SQL        *)
(* statements of sql/03_cdc_apply.sql and sql/04_backfill_reset.sql that    *)
(* read and write it, as operators on a value.                              *)
(*                                                                          *)
(* A client's history is a function from source_lsn to the version row      *)
(* holding that lsn: UNIQUE (client_id, source_lsn), the constraint         *)
(* uq_client_lsn of sql/01_dimensions.sql, makes it one.  The lsn also      *)
(* stands for the surrogate key risk_snapshot_key in the facts' foreign     *)
(* keys.  Lsns > 0 are change events, 0 is the baseline, < 0 are stopgaps.  *)
(*                                                                          *)
(* Time is counted in microseconds: '1970-01-01' is Epoch, '9999-12-31' is  *)
(* Forever.  The business columns (risk_category, account_balance_usd and   *)
(* account_status other than 'deleted') are one value, attrs, that says     *)
(* where they were copied from: the lsn of an event and its revision.       *)
(***************************************************************************)
EXTENDS Integers

CONSTANT Forever

ASSUME ForeverAssumption == Forever \in Nat

Epoch == 0

Attrs == Int \X Int
UnknownAttrs == <<-1, 0>>      \* 'unknown', 0.00, 'unknown'
ProfileAttrs == <<0, 0>>       \* the client_profile row

Version == [valid_from : Int, valid_to : Int, is_current : BOOLEAN,
            is_deleted : BOOLEAN, attrs : Attrs]

IsHistory(H) ==
    /\ H = [lsn \in DOMAIN H |-> H[lsn]]
    /\ DOMAIN H \subseteq Int
    /\ \A lsn \in DOMAIN H : H[lsn] \in Version

NoHistory == [lsn \in {} |-> {}]

----------------------------------------------------------------------------
(* Reads.                                                                  *)

Newest(H) == {lsn \in DOMAIN H : \A other \in DOMAIN H : other <= lsn}

\* Mutant of Below: the reset point itself is kept.
BelowOrAt(H, from) == {lsn \in DOMAIN H : lsn <= from}

Below(H, from) == {lsn \in DOMAIN H : lsn < from}

\* WHERE valid_from <= ts AND valid_to > ts: resolve_risk_snapshot_key
\* returns any one of these, LIMIT 1 without an ORDER BY.
Covering(H, ts) == {lsn \in DOMAIN H : H[lsn].valid_from <= ts /\ ts < H[lsn].valid_to}

----------------------------------------------------------------------------
(* Writes.                                                                 *)

\* INSERT ... ON CONFLICT (client_id, source_lsn) DO NOTHING
Insert(H, lsn, row) ==
    [l \in DOMAIN H \cup {lsn} |-> IF l \in DOMAIN H THEN H[l] ELSE row]

Delete(H, lsns) == [l \in DOMAIN H \ lsns |-> H[l]]

Row(from, to, current, deleted, attrs) ==
    [valid_from |-> from, valid_to |-> to, is_current |-> current,
     is_deleted |-> deleted, attrs |-> attrs]

\* Mutant of EndDateCurrent: the old version is end-dated but stays current.
EndDateKeepingFlag(H, ts) ==
    [l \in DOMAIN H |-> IF H[l].is_current THEN [H[l] EXCEPT !.valid_to = ts] ELSE H[l]]

EndDateCurrent(H, ts) ==
    [l \in DOMAIN H |-> IF H[l].is_current
                        THEN [H[l] EXCEPT !.valid_to = ts, !.is_current = FALSE]
                        ELSE H[l]]

\* apply_cdc_event, steps 2, 3a and 3b.  A tombstone copies the newest row,
\* so a delete with nothing to copy appends nothing.
ApplyUpsert(H, lsn, ts, attrs) ==
    Insert(EndDateCurrent(H, ts), lsn, Row(ts, Forever, TRUE, FALSE, attrs))

\* Mutant of ApplyDelete: the tombstone copies the oldest row, not the newest.
ApplyDeleteCopyingOldest(H, lsn, ts) ==
    LET copied == {H[l].attrs : l \in {m \in DOMAIN H : \A k \in DOMAIN H : m <= k}}
    IN  IF copied = {} THEN EndDateCurrent(H, ts)
        ELSE Insert(EndDateCurrent(H, ts), lsn,
                    Row(ts, Forever, TRUE, TRUE, CHOOSE a \in copied : TRUE))

ApplyDelete(H, lsn, ts) ==
    LET copied == {H[l].attrs : l \in Newest(H)}
    IN  IF copied = {} THEN EndDateCurrent(H, ts)
        ELSE Insert(EndDateCurrent(H, ts), lsn,
                    Row(ts, Forever, TRUE, TRUE, CHOOSE a \in copied : TRUE))

\* Mutants of ResetFrom: the row made current keeps its end date, or loses its
\* tombstone flag.
ResetWithoutReopening(H, from) ==
    [l \in Below(H, from) |->
        IF \A other \in Below(H, from) : other <= l
        THEN [H[l] EXCEPT !.is_current = TRUE]
        ELSE H[l]]
ResetUndeleting(H, from) ==
    [l \in Below(H, from) |->
        IF \A other \in Below(H, from) : other <= l
        THEN [H[l] EXCEPT !.is_current = TRUE, !.valid_to = Forever, !.is_deleted = FALSE]
        ELSE H[l]]

\* reset_client_for_reload: forget everything from an lsn on, and make the
\* newest row that is left the current one again, is_deleted as it was.
ResetFrom(H, from) ==
    [l \in Below(H, from) |->
        IF \A other \in Below(H, from) : other <= l
        THEN [H[l] EXCEPT !.is_current = TRUE, !.valid_to = Forever]
        ELSE H[l]]

\* Mutants of the two: a stopgap of no width; a baseline without its
\* business columns.
EmptyStopgapRow(ts) == Row(ts, ts, FALSE, FALSE, UnknownAttrs)
BaselineRowWithoutColumns(attrs) == Row(Epoch, Forever, TRUE, FALSE, <<>>)

\* The two rows written outside SQL functions: the one-microsecond stopgap
\* of a fact that found no version, and the wide-open baseline.
StopgapRow(ts) == Row(ts, ts + 1, FALSE, FALSE, UnknownAttrs)
BaselineRow(attrs) == Row(Epoch, Forever, TRUE, FALSE, attrs)

\* COALESCE(MIN(source_lsn), 0) - 1
StopgapLsns(H) ==
    IF DOMAIN H = {} THEN {-1}
    ELSE {l - 1 : l \in {m \in DOMAIN H : \A other \in DOMAIN H : m <= other}}

----------------------------------------------------------------------------
(* The shape every statement sequence of the loads keeps: an open version   *)
(* is the newest, and a closed real version (lsn >= 0) ends where the next  *)
(* row begins.                                                             *)

Adjacent(H, l, m) == l < m /\ \A k \in DOMAIN H : k <= l \/ m <= k

Tiled(H) ==
    /\ \A l \in DOMAIN H : H[l].is_current =>
          H[l].valid_to = Forever /\ \A m \in DOMAIN H : m <= l
    /\ \A l \in DOMAIN H : l >= 0 /\ ~ H[l].is_current =>
          \E m \in DOMAIN H : Adjacent(H, l, m) /\ H[l].valid_to = H[m].valid_from
=============================================================================
