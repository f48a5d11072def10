-------------------------- MODULE MCWarehouseLoads --------------------------
(***************************************************************************)
(* Small instances of WarehouseLoads: what each client's part of the change *)
(* log looks like, which facts are dated before, between and after its      *)
(* changes, and which date ranges are reloaded.                             *)
(***************************************************************************)
EXTENDS WarehouseTimeline

Change(c, op, ts) == [client |-> c, op |-> op, commit_ts |-> ts]
FactOf(c, ts) == [client |-> c, event_ts |-> ts]

Head == <<3, 5>>        \* holds the first change of each log
Tail == <<5, 20>>       \* holds all but the first

\* A client known before the log starts: updated, deleted and back again.
KnownWal == <<Change(1, "update", 4), Change(1, "delete", 6), Change(1, "insert", 8)>>
KnownFacts == [early |-> FactOf(1, 2), late |-> FactOf(1, 9)]

\* A client that the log itself registers.
NewWal == <<Change(1, "insert", 4), Change(1, "update", 6), Change(1, "delete", 8)>>
NewFacts == [early |-> FactOf(1, 2), late |-> FactOf(1, 6)]

KnownWindows == {Head, Tail}
NoWindows == {}

\* Two clients, one with a correction of its first change; the second range
\* begins after the tombstone.
TwoWal == <<Change(1, "update", 4), Change(2, "insert", 4),
            Change(1, "delete", 6), Change(1, "insert", 8)>>
TwoFacts == [one |-> FactOf(2, 7)]
TwoWindows == {Head, <<7, 20>>}
=============================================================================
