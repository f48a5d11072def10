-------------------------- MODULE MCConcurrentLoads --------------------------
(***************************************************************************)
(* Small instances of ConcurrentLoads.                                      *)
(***************************************************************************)
EXTENDS ConcurrentLoads

Change(c, op, ts) == [client |-> c, op |-> op, commit_ts |-> ts]

\* Client 1 has its baseline, client 3 nothing but facts.  The file names client
\* 2 first, the reload client 1.  Client 2's delete comes after the update that
\* follows it, and the reload replays the client from that delete on.
CrossedWal == <<Change(2, "insert", 4), Change(1, "update", 4),
                Change(2, "delete", 6), Change(2, "update", 7)>>
CrossedLines == <<1, 2, 4, 3>>
CrossedFrom == <<2, 3>>
OrphanFact(ts) == [client |-> 3, event_ts |-> ts]
OrphanFacts == <<OrphanFact(2), OrphanFact(2), OrphanFact(5)>>
CrossedKind == [apply |-> "apply", reload |-> "reload",
                seed |-> "seed", deposits |-> "facts", trades |-> "facts"]
CrossedSource == [t \in DOMAIN CrossedKind |->
                    IF t = "deposits" THEN {1} ELSE IF t = "trades" THEN {2, 3} ELSE {}]

\* A client known before the log starts, and the seed it is to get.
KnownWal == <<Change(1, "update", 4)>>
KnownLines == <<1>>
NoReload == [c \in {} |-> 0]
NoFacts == [x \in {} |-> 0]
RaceKind == [apply |-> "apply", seed |-> "seed"]
RaceSource == [t \in DOMAIN RaceKind |-> {}]

\* A client without a baseline: its first change and a fact dated before it.
NewWal == [l \in {7} |-> Change(1, "insert", 4)]
NewLines == [l \in {7} |-> 1]
EarlyFact == <<[client |-> 1, event_ts |-> 2]>>
StopgapKind == [apply |-> "apply", deposits |-> "facts"]
StopgapSource == [apply |-> {}, deposits |-> {1}]
=============================================================================
