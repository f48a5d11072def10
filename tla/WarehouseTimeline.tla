-------------------------- MODULE WarehouseTimeline --------------------------
(***************************************************************************)
(* WarehouseLoads implements ClientTimeline: the committed tables are the   *)
(* timeline, a real version's lsn is what is recorded of it, and all that a *)
(* load does before it commits is stuttering.                               *)
(***************************************************************************)
EXTENDS WarehouseLoads

Timeline == INSTANCE ClientTimeline WITH
    ClientOf <- [x \in Facts |-> FactRow[x].client],
    recorded <- [c \in Clients |-> Real(db.snap[c])],
    mark <- db.wm,
    pins <- db.fact

\* Each committed load does what its kind may do to the timeline and nothing
\* else: applies add above the mark, seeds only put baselines under clients
\* without changes, reloads gain versions from a point on and lose none, and
\* only a seed or a reload moves a pinned fact without loading it.
ImplementsTimeline == Timeline!Spec
=============================================================================
