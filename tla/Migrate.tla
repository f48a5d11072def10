------------------------------ MODULE Migrate ------------------------------
(***************************************************************************)
(* deriv_pipeline.migrate: concurrent calls of run_migrations, each one      *)
(* transaction, over files that may be edited between releases.             *)
(*                                                                          *)
(* CREATE TABLE IF NOT EXISTS runs before the advisory lock is taken.  Two   *)
(* calls that both find no schema_migrations meet in the catalogue: the      *)
(* second waits for the first and, when that commits, fails with a          *)
(* duplicate-object error.                                                  *)
(***************************************************************************)
EXTENDS Integers, Sequences, FiniteSets

CONSTANTS
    Callers,
    NoCaller,
    Manifest    \* the migration files in their order

ASSUME MigrateAssumption ==
    /\ NoCaller \notin Callers /\ Manifest \in Seq(STRING)
    /\ \A i, j \in DOMAIN Manifest : Manifest[i] = Manifest[j] => i = j

VARIABLES
    table,      \* public.schema_migrations exists
    recorded,   \* files with a row in it
    edited,     \* files whose checksum is no longer the one executed
    call,       \* caller -> where its call stands
    position,   \* caller -> next entry of the manifest
    mine,       \* caller -> files it executed and recorded, uncommitted
    creating    \* the caller whose CREATE TABLE is uncommitted

migrateVars == <<table, recorded, edited, call, position, mine, creating>>

ManifestFiles == {Manifest[i] : i \in DOMAIN Manifest}
UpTo(n) == {Manifest[i] : i \in 1..n}
CallStates == {"idle", "create", "wait", "lock", "apply"}

MigrateTypeOK ==
    /\ table \in BOOLEAN
    /\ recorded \subseteq ManifestFiles /\ edited \subseteq ManifestFiles
    /\ call \in [Callers -> CallStates]
    /\ position \in [Callers -> 1..Len(Manifest) + 1]
    /\ mine \in [Callers -> SUBSET ManifestFiles]
    /\ creating \in Callers \cup {NoCaller}

\* A fresh database, or one that an earlier release with a shorter manifest
\* has migrated.
MigrateInit ==
    /\ \E n \in 0..Len(Manifest) : recorded = UpTo(n) /\ table = (n > 0)
    /\ edited = {} /\ creating = NoCaller
    /\ call = [p \in Callers |-> "idle"] /\ position = [p \in Callers |-> 1]
    /\ mine = [p \in Callers |-> {}]

Executed == recorded \cup UNION {mine[p] : p \in Callers}

\* A file is changed after it was executed, or changed back.  (Before that a
\* change makes no difference.)
Edit(f) ==
    /\ f \in Executed
    /\ edited' = IF f \in edited THEN edited \ {f} ELSE edited \cup {f}
    /\ UNCHANGED <<table, recorded, call, position, mine, creating>>

StartCall(p) ==
    /\ call[p] = "idle"
    /\ call' = [call EXCEPT ![p] = "create"]
    /\ UNCHANGED <<table, recorded, edited, position, mine, creating>>

\* CREATE TABLE IF NOT EXISTS: a no-op, the creation, or a wait for the
\* caller whose creation is under way.
CreateTable(p) ==
    /\ call[p] = "create"
    /\ \/ /\ table
          /\ call' = [call EXCEPT ![p] = "lock"] /\ UNCHANGED creating
       \/ /\ ~table /\ creating = NoCaller
          /\ call' = [call EXCEPT ![p] = "lock"] /\ creating' = p
       \/ /\ ~table /\ creating # NoCaller
          /\ call' = [call EXCEPT ![p] = "wait"] /\ UNCHANGED creating
    /\ UNCHANGED <<table, recorded, edited, position, mine>>

\* The creation that was waited for has been rolled back.  (If it was
\* committed, FailCall is all that is left.)
CreateAfterWait(p) ==
    /\ call[p] = "wait" /\ creating = NoCaller /\ ~table
    /\ call' = [call EXCEPT ![p] = "lock"] /\ creating' = p
    /\ UNCHANGED <<table, recorded, edited, position, mine>>

\* Mutant of Locked: no advisory lock.
NeverLocked == FALSE

Locked == \E q \in Callers : call[q] = "apply"

Lock(p) ==
    /\ call[p] = "lock" /\ ~Locked
    /\ call' = [call EXCEPT ![p] = "apply"] /\ position' = [position EXCEPT ![p] = 1]
    /\ UNCHANGED <<table, recorded, edited, mine, creating>>

\* One round of the loop: a recorded file is skipped, one that is not is
\* executed; if the checksum has changed the call can only fail.
ApplyFile(p) ==
    /\ call[p] = "apply" /\ position[p] <= Len(Manifest)
    /\ LET f == Manifest[position[p]] IN
       /\ f \in recorded => f \notin edited
       /\ mine' = IF f \in recorded THEN mine ELSE [mine EXCEPT ![p] = @ \cup {f}]
    /\ position' = [position EXCEPT ![p] = @ + 1]
    /\ UNCHANGED <<table, recorded, edited, call, creating>>

Ended(p) ==
    /\ call' = [call EXCEPT ![p] = "idle"] /\ position' = [position EXCEPT ![p] = 1]
    /\ mine' = [mine EXCEPT ![p] = {}]
    /\ creating' = IF creating = p THEN NoCaller ELSE creating

CommitCall(p) ==
    /\ call[p] = "apply" /\ position[p] > Len(Manifest)
    /\ recorded' = recorded \cup mine[p] /\ table' = TRUE
    /\ Ended(p) /\ UNCHANGED edited

\* An error or a lost connection: everything is rolled back.
FailCall(p) ==
    /\ call[p] # "idle"
    /\ edited' = edited \ mine[p]
    /\ Ended(p) /\ UNCHANGED <<table, recorded>>

MigrateStep(p) ==
    \/ StartCall(p) \/ CreateTable(p) \/ CreateAfterWait(p) \/ Lock(p) \/ ApplyFile(p)
    \/ FailCall(p)

----------------------------------------------------------------------------
\* The files recorded are always the first of the manifest, so each ran after
\* those it depends on; and whatever calls overlap or fail, no file is executed
\* by two calls, nor by one once it is recorded.
MigratedOnce ==
    /\ \E n \in 0..Len(Manifest) : recorded = UpTo(n)
    /\ \A p \in Callers : mine[p] \cap recorded = {}
    /\ \A p, q \in Callers : p # q => mine[p] \cap mine[q] = {}
=============================================================================
