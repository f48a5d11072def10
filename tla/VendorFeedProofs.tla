-------------------------- MODULE VendorFeedProofs --------------------------
(***************************************************************************)
(* Theorems about the vendor feed: the types, what staging a set of files   *)
(* in the order of their names makes of the staging table, the flags that   *)
(* are never taken back, the checks that precede every load, the            *)
(* regressions and the stored discrepancies.                                *)
(***************************************************************************)
EXTENDS VendorFeed, FiniteSetTheorems, WellFoundedInduction, TLAPS

(***************************************************************************)
(* The inductive invariants.                                                *)
(***************************************************************************)

\* What TypeOK leaves unsaid: the keys of a reconciliation are finitely many,
\* and a repeated run has results to add to until it has checked.
Shape ==
    /\ IsFiniteSet(left)
    /\ again /\ task \in {"land_layer1", "stage_layer2", "run_dq_checks"} =>
          Len(log) > 0 /\ Len(log[Len(log)]) < Executions

\* A loaded row is staged, with the amount it was loaded with and every flag;
\* what a load is about to take has been checked.
LoadInv ==
    /\ \A d \in DOMAIN fact :
          /\ fact[d].amount = staged[d].amount
          /\ fact[d].late => staged[d].late
    /\ task = "load_layer3" =>
          \A check \in Critical : Failing(check) # {} => check \in quarantined

----------------------------------------------------------------------------
(* Finite sets of files, and the recursion over them.                      *)

\* Among sets of subsets of a finite set there is a smallest one.
LEMMA SmallestSet ==
    ASSUME NEW T, IsFiniteSet(T), NEW P \in SUBSET SUBSET T, P # {}
    PROVE  \E S \in P : \A R \in P : R \subseteq S => R = S
<1>1. IsWellFoundedOn(StrictSubsetOrdering(T), FiniteSubsetsOf(T))
  BY FS_StrictSubsetOrderingWellFounded
<1>2. P \subseteq FiniteSubsetsOf(T)
  BY FS_Subset DEF FiniteSubsetsOf
<1>3. PICK S \in P : \A R \in P : ~ (<<R, S>> \in StrictSubsetOrdering(T))
  BY <1>1, <1>2, WFMin
<1>4. ASSUME NEW R \in P, R \subseteq S PROVE R = S
  BY <1>3, <1>4 DEF StrictSubsetOrdering
<1> QED BY <1>4

\* ORDER BY source_file has a last file.
LEMMA LastStagedExists ==
    ASSUME NEW S \in SUBSET Files, S # {}
    PROVE  LastStaged(S) \in S /\ \A g \in S : g <= LastStaged(S)
<1> DEFINE HasLast(R) == \E f \in R : \A g \in R : g <= f
           P == {R \in SUBSET Files : R # {} /\ ~HasLast(R)}
<1>1. P = {}
  <2>1. SUFFICES ASSUME P # {} PROVE FALSE
    OBVIOUS
  <2>2. PICK R \in P : \A Q \in P : Q \subseteq R => Q = R
    <3>1. P \in SUBSET SUBSET Files /\ IsFiniteSet(Files)
      BY FeedAssumption
    <3> HIDE DEF P
    <3> QED BY <2>1, <3>1, SmallestSet
  <2>3. PICK x \in R : TRUE
    OBVIOUS
  <2>4. x \in Nat /\ R \subseteq Nat
    BY FeedAssumption
  <2> DEFINE Q == R \ {x}
  <2>5. Q \notin P
    BY <2>2
  <2>6. CASE Q = {}
    <3>1. \A g \in R : g <= x
      BY <2>4, <2>6
    <3> QED BY <3>1
  <2>7. CASE HasLast(Q)
    <3>1. PICK f \in Q : \A g \in Q : g <= f
      BY <2>7
    <3>2. \A g \in R : g <= IF x <= f THEN f ELSE x
      BY <2>4, <3>1
    <3> QED BY <3>2
  <2> QED BY <2>5, <2>6, <2>7
<1>2. HasLast(S)
  BY <1>1
<1> QED BY <1>2 DEF LastStaged

\* And only one.
LEMMA LastStagedUnique ==
    ASSUME NEW S \in SUBSET Files, NEW x \in S, \A g \in S : g <= x
    PROVE  LastStaged(S) = x
<1> DEFINE y == LastStaged(S)
<1>1. y \in S /\ x <= y /\ y <= x
  BY LastStagedExists
<1>2. x \in Nat /\ y \in Nat
  BY <1>1, FeedAssumption
<1> HIDE DEF y
<1> QED BY <1>1, <1>2 DEF y

\* A table of staged files is what Upserted says of it.
UpsertedOf(g, T) ==
    g = [files \in SUBSET T |->
            IF files = {} THEN staged
            ELSE UpsertFile(g[files \ {LastStaged(files)}], LastStaged(files))]

\* With one file more, one that is named after the others, there is such a
\* function too.
LEMMA UpsertedExtends ==
    ASSUME NEW S \in SUBSET Files, NEW x \in S, \A y \in S : y <= x,
           NEW h, UpsertedOf(h, S \ {x})
    PROVE  \E g : UpsertedOf(g, S)
<1> DEFINE R == S \ {x}
           g == [files \in SUBSET S |->
                    IF x \in files THEN UpsertFile(h[files \ {x}], x) ELSE h[files]]
<1>1. ASSUME NEW U \in SUBSET S
      PROVE  g[U] = IF U = {} THEN staged
                    ELSE UpsertFile(g[U \ {LastStaged(U)}], LastStaged(U))
  <2>1. CASE x \in U
    <3>1. LastStaged(U) = x
      BY <2>1, LastStagedUnique
    <3>2. U \ {x} \in SUBSET S /\ x \notin U \ {x}
      OBVIOUS
    <3>3. g[U \ {x}] = h[U \ {x}]
      BY <3>2
    <3>4. g[U] = UpsertFile(h[U \ {x}], x)
      BY <2>1
    <3> HIDE DEF g
    <3> QED BY <2>1, <3>1, <3>3, <3>4
  <2>2. CASE x \notin U
    <3>1. U \in SUBSET R /\ g[U] = h[U]
      BY <2>2
    <3>2. h[U] = IF U = {} THEN staged
                 ELSE UpsertFile(h[U \ {LastStaged(U)}], LastStaged(U))
      BY <3>1 DEF UpsertedOf
    <3>3. g[U \ {LastStaged(U)}] = h[U \ {LastStaged(U)}]
      BY <2>2
    <3> HIDE DEF g
    <3> QED BY <3>1, <3>2, <3>3
  <2> QED BY <2>1, <2>2
<1>2. g = [U \in SUBSET S |-> g[U]]
  OBVIOUS
<1> HIDE DEF g
<1>3. UpsertedOf(g, S)
  BY <1>1, <1>2 DEF UpsertedOf
<1> QED BY <1>3

\* So the recursion of Upserted is well-founded.
LEMMA UpsertedRecursion ==
    ASSUME NEW S \in SUBSET Files
    PROVE  Upserted[S] = IF S = {} THEN staged
                         ELSE UpsertFile(Upserted[S \ {LastStaged(S)}], LastStaged(S))
<1> DEFINE P == {T \in SUBSET Files : ~ \E g : UpsertedOf(g, T)}
<1>1. P = {}
  <2>1. SUFFICES ASSUME P # {} PROVE FALSE
    OBVIOUS
  <2>2. PICK T \in P : \A R \in P : R \subseteq T => R = T
    <3>1. P \in SUBSET SUBSET Files /\ IsFiniteSet(Files)
      BY FeedAssumption
    <3> HIDE DEF P
    <3> QED BY <2>1, <3>1, SmallestSet
  <2>3. T # {}
    <3>1. SUFFICES ASSUME T = {} PROVE FALSE
      OBVIOUS
    <3>2. UpsertedOf([files \in SUBSET T |-> staged], T)
      BY <3>1 DEF UpsertedOf
    <3> QED BY <2>2, <3>2
  <2>4. LastStaged(T) \in T /\ \A y \in T : y <= LastStaged(T)
    BY <2>3, LastStagedExists
  <2>5. T \ {LastStaged(T)} \notin P
    BY <2>2, <2>4
  <2>6. PICK h : UpsertedOf(h, T \ {LastStaged(T)})
    BY <2>5
  <2> QED BY <2>2, <2>4, <2>6, UpsertedExtends
<1>2. \E g : UpsertedOf(g, Files)
  BY <1>1
<1>3. UpsertedOf(Upserted, Files)
  BY <1>2 DEF UpsertedOf, Upserted
<1>4. S \ {LastStaged(S)} \in SUBSET Files
  OBVIOUS
<1> QED BY <1>3 DEF UpsertedOf
----------------------------------------------------------------------------
(* Staging.                                                                *)

\* What the rows of one file make of the staging table.
LEMMA OneUpsert ==
    ASSUME TypeOK, NEW table, IsTable(table, StagedRows), NEW f \in Files
    PROVE  LET t == UpsertFile(table, f) IN
           /\ IsTable(t, StagedRows)
           /\ DOMAIN t = DOMAIN table \cup DOMAIN raw[f]
           /\ \A d \in DOMAIN table \ DOMAIN raw[f] : t[d] = table[d]
           /\ \A d \in DOMAIN raw[f] :
                 /\ t[d].status = raw[f][d].status
                 /\ t[d].late <=> (d \in DOMAIN table /\ table[d].late) \/ Late(f, raw[f][d])
                 /\ t[d].drift <=> (d \in DOMAIN table /\ table[d].drift) \/ raw[f][d].drifted
                 /\ d \in DOMAIN table => t[d].amount = table[d].amount
<1> DEFINE t == UpsertFile(table, f)
<1>1. /\ t = [d \in DOMAIN table \cup DOMAIN raw[f] |-> t[d]]
      /\ \A d \in DOMAIN table \ DOMAIN raw[f] : t[d] = table[d]
      /\ \A d \in DOMAIN raw[f] :
            t[d] = IF d \in DOMAIN table THEN Merged(table[d], f, d) ELSE Fresh(f, d)
  BY DEF UpsertFile
<1>2. /\ DOMAIN raw[f] \subseteq Deposits /\ DOMAIN table \subseteq Deposits
      /\ \A d \in DOMAIN raw[f] : raw[f][d] \in Rows
      /\ \A d \in DOMAIN table : table[d] \in StagedRows
  BY DEF TypeOK, IsTable
<1> HIDE DEF t
<1>3. ASSUME NEW d \in DOMAIN raw[f]
      PROVE  /\ t[d] \in StagedRows
             /\ t[d].status = raw[f][d].status
             /\ t[d].late <=> (d \in DOMAIN table /\ table[d].late) \/ Late(f, raw[f][d])
             /\ t[d].drift <=> (d \in DOMAIN table /\ table[d].drift) \/ raw[f][d].drifted
             /\ d \in DOMAIN table => t[d].amount = table[d].amount
  <2> DEFINE L == Late(f, raw[f][d])
  <2>1. raw[f][d] \in Rows /\ L \in BOOLEAN
    BY <1>2 DEF Late
  <2>2. CASE d \in DOMAIN table
    <3>1. table[d] \in StagedRows /\ t[d] = Merged(table[d], f, d)
      BY <1>1, <1>2, <2>2
    <3>2. t[d] = [table[d] EXCEPT !.status = raw[f][d].status,
                                  !.drift = table[d].drift \/ raw[f][d].drifted,
                                  !.late = table[d].late \/ L]
      BY <3>1 DEF Merged, StagedRows
    <3> HIDE DEF L
    <3>3. /\ t[d].status = raw[f][d].status /\ t[d].amount = table[d].amount
          /\ t[d].drift = (table[d].drift \/ raw[f][d].drifted)
          /\ t[d].late = (table[d].late \/ L)
      BY <3>1, <3>2 DEF StagedRows
    <3>4. t[d] \in StagedRows
      BY <2>1, <3>1, <3>2 DEF StagedRows, Rows
    <3> QED BY <2>2, <3>3, <3>4 DEF L
  <2>3. CASE d \notin DOMAIN table
    <3>1. t[d] = [date |-> raw[f][d].date, status |-> raw[f][d].status,
                  amount |-> raw[f][d].amount, drift |-> raw[f][d].drifted, late |-> L]
      BY <1>1, <2>3 DEF Fresh
    <3> HIDE DEF L
    <3>2. t[d].status = raw[f][d].status /\ t[d].drift = raw[f][d].drifted /\ t[d].late = L
      BY <3>1
    <3>3. t[d] \in StagedRows
      BY <2>1, <3>1 DEF StagedRows, Rows
    <3> QED BY <2>3, <3>2, <3>3 DEF L
  <2> QED BY <2>2, <2>3
<1>4. IsTable(t, StagedRows)
  <2>1. \A d \in DOMAIN table \cup DOMAIN raw[f] : t[d] \in StagedRows
    BY <1>1, <1>2, <1>3
  <2> QED BY <1>1, <1>2, <2>1 DEF IsTable
<1> QED BY <1>1, <1>3, <1>4 DEF t

\* What the rows of these files make of the staging table: every deposit has
\* the status of the last file it is in, and the flags of all of them.
StagedSoFar(S, t) ==
    /\ IsTable(t, StagedRows)
    /\ DOMAIN t = DOMAIN staged \cup {d \in Deposits : \E f \in S : d \in DOMAIN raw[f]}
    /\ \A d \in DOMAIN t :
          /\ \A f \in S : d \in DOMAIN raw[f] /\ (\A g \in S : d \in DOMAIN raw[g] => g <= f)
                => t[d].status = raw[f][d].status
          /\ t[d].late <=> \/ d \in DOMAIN staged /\ staged[d].late
                           \/ \E f \in S : d \in DOMAIN raw[f] /\ Late(f, raw[f][d])
          /\ t[d].drift <=> \/ d \in DOMAIN staged /\ staged[d].drift
                            \/ \E f \in S : d \in DOMAIN raw[f] /\ raw[f][d].drifted
          /\ d \in DOMAIN staged => t[d].amount = staged[d].amount

\* One file more, named after those so far.
LEMMA StagedMore ==
    ASSUME TypeOK, NEW S \in SUBSET Files, NEW x \in S, \A g \in S : g <= x,
           NEW before, StagedSoFar(S \ {x}, before)
    PROVE  StagedSoFar(S, UpsertFile(before, x))
<1> DEFINE t == UpsertFile(before, x)
           R == S \ {x}
<1>1. /\ IsTable(t, StagedRows)
      /\ DOMAIN t = DOMAIN before \cup DOMAIN raw[x]
      /\ \A d \in DOMAIN before \ DOMAIN raw[x] : t[d] = before[d]
      /\ \A d \in DOMAIN raw[x] :
            /\ t[d].status = raw[x][d].status
            /\ t[d].late <=> (d \in DOMAIN before /\ before[d].late) \/ Late(x, raw[x][d])
            /\ t[d].drift <=> (d \in DOMAIN before /\ before[d].drift) \/ raw[x][d].drifted
            /\ d \in DOMAIN before => t[d].amount = before[d].amount
  BY OneUpsert DEF StagedSoFar
<1> HIDE DEF t
<1>2. DOMAIN raw[x] \subseteq Deposits
  BY DEF TypeOK, IsTable
<1>3. DOMAIN t = DOMAIN staged \cup {d \in Deposits : \E f \in S : d \in DOMAIN raw[f]}
  BY <1>1, <1>2 DEF StagedSoFar
<1>4. ASSUME NEW d \in DOMAIN t, d \notin DOMAIN raw[x]
      PROVE  /\ d \in DOMAIN before /\ t[d] = before[d]
             /\ \A f \in S : d \in DOMAIN raw[f] => f \in R
  BY <1>1, <1>4
<1>5. ASSUME NEW d \in DOMAIN t, NEW f \in S, d \in DOMAIN raw[f],
             \A g \in S : d \in DOMAIN raw[g] => g <= f
      PROVE  t[d].status = raw[f][d].status
  <2>1. CASE d \in DOMAIN raw[x]
    <3>1. f = x
      <4>1. f \in Nat /\ x \in Nat /\ x <= f /\ f <= x
        BY <1>5, <2>1, FeedAssumption
      <4> QED BY <4>1
    <3> QED BY <1>1, <2>1, <3>1
  <2>2. CASE d \notin DOMAIN raw[x]
    BY <1>4, <1>5, <2>2 DEF StagedSoFar
  <2> QED BY <2>1, <2>2
<1>6. ASSUME NEW d \in DOMAIN t
      PROVE  t[d].late <=> \/ d \in DOMAIN staged /\ staged[d].late
                           \/ \E f \in S : d \in DOMAIN raw[f] /\ Late(f, raw[f][d])
  <2>1. CASE d \in DOMAIN before
    <3>1. before[d].late <=> \/ d \in DOMAIN staged /\ staged[d].late
                             \/ \E f \in R : d \in DOMAIN raw[f] /\ Late(f, raw[f][d])
      BY <2>1 DEF StagedSoFar
    <3>2. CASE d \in DOMAIN raw[x]
      BY <1>1, <2>1, <3>1, <3>2
    <3>3. CASE d \notin DOMAIN raw[x]
      BY <1>4, <3>1, <3>3
    <3> QED BY <3>2, <3>3
  <2>2. CASE d \notin DOMAIN before
    <3>1. d \in DOMAIN raw[x] /\ d \notin DOMAIN staged /\ \A f \in R : d \notin DOMAIN raw[f]
      BY <1>1, <1>2, <2>2 DEF StagedSoFar
    <3> QED BY <1>1, <2>2, <3>1
  <2> QED BY <2>1, <2>2
<1>7. ASSUME NEW d \in DOMAIN t
      PROVE  t[d].drift <=> \/ d \in DOMAIN staged /\ staged[d].drift
                            \/ \E f \in S : d \in DOMAIN raw[f] /\ raw[f][d].drifted
  <2>1. CASE d \in DOMAIN before
    <3>1. before[d].drift <=> \/ d \in DOMAIN staged /\ staged[d].drift
                              \/ \E f \in R : d \in DOMAIN raw[f] /\ raw[f][d].drifted
      BY <2>1 DEF StagedSoFar
    <3>2. CASE d \in DOMAIN raw[x]
      BY <1>1, <2>1, <3>1, <3>2
    <3>3. CASE d \notin DOMAIN raw[x]
      BY <1>4, <3>1, <3>3
    <3> QED BY <3>2, <3>3
  <2>2. CASE d \notin DOMAIN before
    <3>1. d \in DOMAIN raw[x] /\ d \notin DOMAIN staged /\ \A f \in R : d \notin DOMAIN raw[f]
      BY <1>1, <1>2, <2>2 DEF StagedSoFar
    <3> QED BY <1>1, <2>2, <3>1
  <2> QED BY <2>1, <2>2
<1>8. ASSUME NEW d \in DOMAIN staged PROVE t[d].amount = staged[d].amount
  BY <1>1 DEF StagedSoFar
<1> QED BY <1>1, <1>3, <1>5, <1>6, <1>7, <1>8 DEF StagedSoFar, t

\* So for any set of files.
LEMMA StagedFiles ==
    ASSUME TypeOK, NEW S \in SUBSET Files
    PROVE  StagedSoFar(S, Upserted[S])
<1> DEFINE P == {T \in SUBSET Files : ~StagedSoFar(T, Upserted[T])}
<1>1. SUFFICES ASSUME P # {} PROVE FALSE
  OBVIOUS
<1>2. PICK T \in P : \A R \in P : R \subseteq T => R = T
  <2>1. P \in SUBSET SUBSET Files /\ IsFiniteSet(Files)
    BY FeedAssumption
  <2> HIDE DEF P
  <2> QED BY <1>1, <2>1, SmallestSet
<1>3. CASE T = {}
  <2>1. Upserted[T] = staged
    BY <1>3, UpsertedRecursion
  <2>2. StagedSoFar(T, staged)
    BY <1>3 DEF StagedSoFar, TypeOK
  <2> QED BY <1>2, <2>1, <2>2
<1>4. CASE T # {}
  <2> DEFINE x == LastStaged(T)
  <2>1. x \in T /\ \A g \in T : g <= x
    BY <1>4, LastStagedExists
  <2>2. T \ {x} \notin P
    BY <1>2, <2>1
  <2>3. StagedSoFar(T \ {x}, Upserted[T \ {x}])
    BY <2>2
  <2>4. Upserted[T] = UpsertFile(Upserted[T \ {x}], x)
    BY <1>4, UpsertedRecursion
  <2> HIDE DEF x
  <2>5. StagedSoFar(T, UpsertFile(Upserted[T \ {x}], x))
    BY <2>1, <2>3, StagedMore
  <2> QED BY <1>2, <2>4, <2>5
<1> QED BY <1>3, <1>4

\* What a run's staging makes of the table, of all the files that are in raw.
LEMMA StagedAll ==
    ASSUME TypeOK, StageLayer2
    PROVE  StagedSoFar(Files, staged')
<1> DEFINE S == {f \in Files : raw[f] # NoRows}
<1>1. StagedSoFar(S, staged')
  BY StagedFiles DEF StageLayer2
<1>2. \A f \in Files \ S : DOMAIN raw[f] = {}
  BY DEF NoRows
<1> HIDE DEF S
<1>3. S \subseteq Files /\ \A f \in Files, d \in Deposits : d \in DOMAIN raw[f] => f \in S
  BY <1>2 DEF S
<1>4. DOMAIN staged' \subseteq Deposits
  BY <1>1 DEF StagedSoFar, IsTable
<1> QED BY <1>1, <1>3, <1>4 DEF StagedSoFar
----------------------------------------------------------------------------
(* Types.                                                                  *)

\* The keys of the loaded facts are finitely many.
LEMMA VendorKeysType ==
    ASSUME TypeOK
    PROVE  VendorKeys \subseteq Keys /\ IsFiniteSet(VendorKeys)
<1>1. /\ DOMAIN fact \subseteq Deposits /\ IsFiniteSet(DOMAIN fact)
      /\ \A d \in DOMAIN fact : fact[d] \in FactRows
  BY FeedAssumption, FS_Subset DEF TypeOK, IsTable
<1>2. VendorKeys \subseteq Keys
  BY <1>1 DEF VendorKeys, Keys, FactRows
<1> DEFINE key == [d \in DOMAIN fact |-> <<fact[d].date, fact[d].amount>>]
<1>3. key \in Surjection(DOMAIN fact, VendorKeys)
  BY DEF Surjection, VendorKeys
<1>4. IsFiniteSet(VendorKeys)
  BY <1>1, <1>3, FS_Surjection
<1> QED BY <1>2, <1>4

\* What a reconciliation finds is a finite set of keys on either side.
LEMMA DiscrepanciesType ==
    ASSUME TypeOK, Shape,
           NEW new, new = ((left \ internal) \X {"missing_right"})
                             \cup ((internal \ left) \X {"missing_left"})
    PROVE  new \subseteq Keys \X Kinds /\ IsFiniteSet(new) /\ Cardinality(new) \in Nat
<1>1. internal \subseteq Keys /\ IsFiniteSet(internal)
  BY ChecksAssumption, FS_Subset DEF TypeOK, Keys
<1>2. IsFiniteSet(left \ internal) /\ IsFiniteSet(internal \ left)
  BY <1>1, FS_Subset DEF Shape
<1>3. IsFiniteSet({"missing_right"}) /\ IsFiniteSet({"missing_left"})
  BY FS_Singleton
<1>4. /\ IsFiniteSet((left \ internal) \X {"missing_right"})
      /\ IsFiniteSet((internal \ left) \X {"missing_left"})
  BY <1>2, <1>3, FS_Product
<1>5. IsFiniteSet(new)
  BY <1>4, FS_Union
<1>6. new \subseteq Keys \X Kinds
  BY <1>1 DEF TypeOK, Kinds
<1> QED BY <1>5, <1>6, FS_CardinalityType

\* Landing.
LEMMA LandType ==
    ASSUME TypeOK, LandLayer1
    PROVE  DOMAIN raw' = Files /\ \A f \in Files : IsTable(raw'[f], Rows)
<1>1. raw' = [f \in Files |-> IF f \in Present THEN Replaced(raw[f], Contents[f][source[f]]) ELSE raw[f]]
  BY DEF LandLayer1
<1>2. ASSUME NEW f \in Present
      PROVE  IsTable(Replaced(raw[f], Contents[f][source[f]]), Rows)
  <2>1. f \in Files /\ source[f] \in 1..Len(Contents[f])
    BY <1>2, FeedAssumption DEF Present, TypeOK
  <2> DEFINE old == raw[f]
             new == Contents[f][source[f]]
  <2>2. IsTable(old, Rows) /\ IsTable(new, Rows)
    BY <2>1, FeedAssumption DEF TypeOK
  <2> HIDE DEF old, new
  <2>3. IsTable(Replaced(old, new), Rows)
    BY <2>2 DEF IsTable, Replaced
  <2> QED BY <2>3 DEF old, new
<1> QED BY <1>1, <1>2 DEF TypeOK

\* The checks' log.
LEMMA LogType ==
    ASSUME TypeOK, Shape, RunChecks
    PROVE  /\ log' \in Seq(Seq(SUBSET Checks)) /\ Len(log') <= 2
           /\ \A r \in DOMAIN log' : Len(log'[r]) \in 1..Executions
<1> DEFINE failed == {check \in Checks : Failing(check) # {}}
<1>1. /\ failed \in SUBSET Checks
      /\ log' = IF again THEN [log EXCEPT ![Len(log)] = Append(log[Len(log)], failed)]
                ELSE IF Len(log) < 2 THEN Append(log, <<failed>>)
                ELSE <<log[Len(log)], <<failed>>>>
  BY DEF RunChecks
<1>2. Executions \in Nat \ {0} /\ Len(log) \in Nat /\ DOMAIN log = 1..Len(log)
  BY ChecksAssumption DEF TypeOK
<1> HIDE DEF failed
<1>3. <<failed>> \in Seq(SUBSET Checks) /\ Len(<<failed>>) \in 1..Executions
  BY <1>1, <1>2
<1>4. CASE again
  <2>1. Len(log) > 0 /\ Len(log[Len(log)]) < Executions
    BY <1>4 DEF Shape, RunChecks, Succeed
  <2> DEFINE last == log[Len(log)]
             more == Append(last, failed)
  <2>2. last \in Seq(SUBSET Checks) /\ Len(last) \in 1..Executions
    BY <1>2, <2>1 DEF TypeOK
  <2>3. more \in Seq(SUBSET Checks) /\ Len(more) = Len(last) + 1
    BY <1>1, <2>2
  <2>4. Len(more) \in 1..Executions
    BY <1>2, <2>1, <2>2, <2>3
  <2>5. log' = [log EXCEPT ![Len(log)] = more]
    BY <1>1, <1>4
  <2> HIDE DEF last, more
  <2> QED BY <1>2, <2>1, <2>3, <2>4, <2>5 DEF TypeOK
<1> DEFINE one == <<failed>>
<1>5. CASE ~again /\ Len(log) < 2
  <2>1. log' = Append(log, one)
    BY <1>1, <1>5
  <2>2. one \in Seq(SUBSET Checks) /\ Len(one) \in 1..Executions
    BY <1>3
  <2> HIDE DEF one
  <2>3. log' \in Seq(Seq(SUBSET Checks)) /\ Len(log') = Len(log) + 1
    BY <2>1, <2>2 DEF TypeOK
  <2>4. \A r \in DOMAIN log' : log'[r] = one \/ (r \in DOMAIN log /\ log'[r] = log[r])
    BY <1>2, <2>1, <2>2, <2>3 DEF TypeOK
  <2>5. \A r \in DOMAIN log' : Len(log'[r]) \in 1..Executions
    BY <2>2, <2>4 DEF TypeOK
  <2> QED BY <1>2, <1>5, <2>3, <2>5
<1>6. CASE ~again /\ ~(Len(log) < 2)
  <2> DEFINE last == log[Len(log)]
  <2>1. last \in Seq(SUBSET Checks) /\ Len(last) \in 1..Executions
    BY <1>2, <1>6 DEF TypeOK
  <2>2. log' = <<last, one>>
    BY <1>1, <1>6
  <2>3. one \in Seq(SUBSET Checks) /\ Len(one) \in 1..Executions
    BY <1>3
  <2> HIDE DEF last, one
  <2>4. /\ log' \in Seq(Seq(SUBSET Checks)) /\ Len(log') = 2 /\ DOMAIN log' = 1..2
        /\ log'[1] = last /\ log'[2] = one
    BY <2>1, <2>2, <2>3
  <2> QED BY <2>1, <2>3, <2>4
<1> QED BY <1>4, <1>5, <1>6

\* The steps of the vendor feed, and what they leave alone.
LEMMA NextType ==
    ASSUME TypeOK, Shape, [Next]_vars
    PROVE  TypeOK' /\ Shape'
<1>1. CASE UNCHANGED vars
  BY <1>1 DEF vars, world, pipeline, recon, TypeOK, Shape
<1>2. ASSUME NEW f \in Files, Deliver(f) PROVE TypeOK' /\ Shape'
  <2>1. source' \in [Files -> Nat] /\ \A g \in Files : source'[g] <= Len(Contents[g])
    BY <1>2, FeedAssumption DEF Deliver, TypeOK
  <2> QED BY <1>2, <2>1 DEF Deliver, world, pipeline, recon, TypeOK, Shape
<1>3. ASSUME NEW k \in InternalKeys, RecordInternal(k) PROVE TypeOK' /\ Shape'
  BY <1>3 DEF RecordInternal, world, pipeline, recon, TypeOK, Shape
<1>4. ASSUME NEW d \in Exposed, ApplyFirstChange(d) \/ Backfill(d) PROVE TypeOK' /\ Shape'
  BY <1>4 DEF ApplyFirstChange, Backfill, pipeline, recon, TypeOK, Shape
<1>5. CASE StartRun \/ RepeatRun \/ FailTask \/ LoadRaises
  <2>1. /\ UNCHANGED <<world, raw, staged, fact, log, quarantined, recon>>
        /\ task' \in Tasks /\ again' \in BOOLEAN
    BY <1>5 DEF StartRun, RepeatRun, FailTask, LoadRaises, TypeOK, Tasks
  <2>2. again' /\ task' # "idle" => Len(log) > 0 /\ Len(log[Len(log)]) < Executions
    <3>1. CASE RepeatRun
      <4>1. log \in Seq(Seq(SUBSET Checks)) /\ log # <<>>
        BY <3>1 DEF RepeatRun, TypeOK
      <4>2. Len(log) > 0
        BY <4>1
      <4> QED BY <3>1, <4>2 DEF RepeatRun
    <3> QED BY <1>5, <3>1 DEF StartRun, FailTask, LoadRaises
  <2>3. TypeOK'
    BY <2>1 DEF world, recon, TypeOK
  <2> QED BY <2>1, <2>2, <2>3 DEF world, recon, Shape
<1>6. CASE LandLayer1
  <2>1. task' = "stage_layer2" /\ task = "land_layer1"
    BY <1>6 DEF LandLayer1, Succeed, TaskAfter
  <2> QED BY <1>6, <2>1, LandType DEF LandLayer1, world, recon, TypeOK, Shape, Tasks
<1>7. CASE StageLayer2
  <2>1. task' = "run_dq_checks" /\ task = "stage_layer2"
    BY <1>7 DEF StageLayer2, Succeed, TaskAfter
  <2>2. IsTable(staged', StagedRows) /\ DOMAIN staged \subseteq DOMAIN staged'
    BY <1>7, StagedAll DEF StagedSoFar
  <2> QED BY <1>7, <2>1, <2>2 DEF StageLayer2, world, recon, TypeOK, Shape, Tasks
<1>8. CASE RunChecks
  <2>1. task' = "load_layer3"
    BY <1>8 DEF RunChecks, Succeed, TaskAfter
  <2>2. quarantined' \subseteq Critical
    BY <1>8 DEF RunChecks
  <2> QED BY <1>8, <2>1, <2>2, LogType DEF RunChecks, world, recon, TypeOK, Shape, Tasks
<1>9. CASE LoadLayer3
  <2>1. task' = "idle"
    BY <1>9 DEF LoadLayer3, Succeed, TaskAfter
  <2>2. /\ fact' = [d \in DOMAIN staged \cup DOMAIN fact |-> FactRow(staged[d])]
        /\ staged' = staged
    BY <1>9 DEF LoadLayer3
  <2>3. \A d \in DOMAIN staged : FactRow(staged[d]) \in FactRows
    BY DEF TypeOK, IsTable, FactRow, FactRows, StagedRows
  <2>4. DOMAIN staged \cup DOMAIN fact = DOMAIN staged /\ DOMAIN staged \subseteq Deposits
    BY DEF TypeOK, IsTable
  <2>5. IsTable(fact', FactRows) /\ DOMAIN fact' \subseteq DOMAIN staged'
    BY <2>2, <2>3, <2>4 DEF IsTable
  <2> QED BY <1>9, <2>1, <2>5 DEF LoadLayer3, world, recon, TypeOK, Shape, Tasks
<1>10. CASE BeginReconciliation("new") \/ BeginReconciliation("again")
  BY <1>10, VendorKeysType DEF BeginReconciliation, LeftKeys, world, pipeline, TypeOK, Shape
<1>11. CASE FinishReconciliation
  BY <1>11, DiscrepanciesType DEF FinishReconciliation, Stored, world, pipeline, TypeOK, Shape
<1>12. CASE FailReconciliation
  BY <1>12 DEF FailReconciliation, world, pipeline, TypeOK, Shape
<1> QED BY <1>1, <1>2, <1>3, <1>5, <1>6, <1>7, <1>8, <1>9, <1>10, <1>11, <1>12, <1>4 DEF Next

\* The empty tables have the types.
LEMMA InitType ==
    ASSUME Init
    PROVE  TypeOK /\ Shape
<1>1. IsTable(NoRows, Rows) /\ IsTable(NoRows, StagedRows) /\ IsTable(NoRows, FactRows)
  BY DEF NoRows, IsTable
<1>2. <<>> \in Seq(Seq(SUBSET Checks)) /\ DOMAIN <<>> = {} /\ Len(<<>>) = 0
  OBVIOUS
<1>3. \A f \in Files : 0 <= Len(Contents[f])
  BY FeedAssumption
<1>4. source \in [Files -> Nat] /\ \A f \in Files : source[f] <= Len(Contents[f])
  BY <1>3 DEF Init
<1>5. DOMAIN raw = Files /\ \A f \in Files : raw[f] = NoRows
  BY DEF Init
<1>6. log \in Seq(Seq(SUBSET Checks)) /\ Len(log) <= 2 /\ DOMAIN log = {}
  BY <1>2 DEF Init
<1>7. TypeOK
  BY <1>1, <1>4, <1>5, <1>6 DEF Init, TypeOK, Tasks
<1> QED BY <1>7, FS_EmptySet DEF Init, Shape
----------------------------------------------------------------------------
(* Loads, checks and flags.                                                *)

\* LoadInv and NothingLoadedUnchecked are kept together, and with them every
\* flag that is loaded.
LEMMA NextLoadInv ==
    ASSUME TypeOK, LoadInv, NothingLoadedUnchecked, [Next]_vars
    PROVE  /\ LoadInv' /\ NothingLoadedUnchecked'
           /\ \A d \in DOMAIN fact : fact[d].late => fact'[d].late
<1>1. CASE UNCHANGED <<staged, fact, quarantined>> /\ (task' = "load_layer3" => task = "load_layer3")
  BY <1>1 DEF LoadInv, NothingLoadedUnchecked, Failing
<1>2. CASE StageLayer2
  <2>1. UNCHANGED <<fact, quarantined>> /\ task' = "run_dq_checks"
    BY <1>2 DEF StageLayer2, Succeed, TaskAfter
  <2>2. ASSUME NEW d \in DOMAIN fact
        PROVE  staged'[d].amount = staged[d].amount /\ (staged[d].late => staged'[d].late)
    <3>1. d \in DOMAIN staged
      BY DEF TypeOK
    <3>2. d \in DOMAIN staged'
      BY <1>2, <3>1, StagedAll DEF StagedSoFar
    <3> QED BY <1>2, <3>1, <3>2, StagedAll DEF StagedSoFar
  <2> QED BY <2>1, <2>2 DEF LoadInv, NothingLoadedUnchecked
<1>3. CASE RunChecks
  <2> DEFINE failed == {check \in Checks : Failing(check) # {}}
  <2>1. UNCHANGED <<staged, fact>> /\ quarantined' = failed \cap Critical
    BY <1>3 DEF RunChecks
  <2>2. \A check \in Critical : Failing(check) # {} => check \in quarantined'
    BY <2>1, ChecksAssumption
  <2>3. ASSUME NEW check \in Critical, NEW d \in DOMAIN fact, fact[d].amount \in BadAmounts[check]
        PROVE  check \in quarantined'
    <3>1. d \in Failing(check)
      BY <2>3 DEF LoadInv, Failing, TypeOK
    <3> QED BY <2>2, <3>1
  <2> QED BY <2>1, <2>2, <2>3 DEF LoadInv, NothingLoadedUnchecked, Failing
<1>4. CASE LoadLayer3
  <2>1. /\ UNCHANGED <<staged, quarantined>> /\ task = "load_layer3" /\ task' = "idle"
        /\ fact' = [d \in DOMAIN staged |-> FactRow(staged[d])]
    <3>1. DOMAIN staged \cup DOMAIN fact = DOMAIN staged
      BY DEF TypeOK
    <3> QED BY <1>4, <3>1 DEF LoadLayer3, Succeed, TaskAfter
  <2>2. \A d \in DOMAIN staged : /\ fact'[d].amount = staged[d].amount
                                 /\ fact'[d].late = staged[d].late
    BY <2>1 DEF FactRow
  <2>3. ASSUME NEW check \in Critical, NEW d \in DOMAIN fact', fact'[d].amount \in BadAmounts[check]
        PROVE  check \in quarantined'
    <3>1. d \in Failing(check)
      BY <2>1, <2>2, <2>3 DEF Failing
    <3> QED BY <2>1, <3>1 DEF LoadInv
  <2> QED BY <2>1, <2>2, <2>3 DEF LoadInv, NothingLoadedUnchecked, TypeOK
<1> QED BY <1>1, <1>2, <1>3, <1>4
        DEF Next, vars, pipeline, Deliver, RecordInternal, ApplyFirstChange, Backfill, StartRun,
            RepeatRun, FailTask, LoadRaises, LandLayer1, Succeed, TaskAfter, BeginReconciliation, FinishReconciliation, FailReconciliation

\* A run with no failed check that the run before it passed is no regression.
LEMMA NoNewFailure ==
    ASSUME TypeOK, NEW r \in DOMAIN log, r > 1, Len(log[r]) = 1,
           \A check \in log[r][1] : \A e \in DOMAIN log[r - 1] : check \in log[r - 1][e]
    PROVE  FailedChecks(log[r]) <= FailedChecks(log[r - 1])
<1> DEFINE Failed(executions) == {row \in (DOMAIN executions) \X Checks : row[2] \in executions[row[1]]}
           this == log[r]
           before == log[r - 1]
<1>1. r - 1 \in DOMAIN log
  BY DEF TypeOK
<1>2. /\ this \in Seq(SUBSET Checks) /\ DOMAIN this = {1}
      /\ before \in Seq(SUBSET Checks) /\ 1 \in DOMAIN before
      /\ DOMAIN before = 1..Len(before) /\ Len(before) \in Nat
  BY <1>1, ChecksAssumption DEF TypeOK
<1> HIDE DEF this, before
<1>3. IsFiniteSet(Failed(before))
  <2>1. IsFiniteSet(1..Len(before))
    BY <1>2, FS_Interval
  <2>2. IsFiniteSet(DOMAIN before)
    BY <2>1, <1>2
  <2>3. IsFiniteSet((DOMAIN before) \X Checks)
    BY <2>2, FS_Product, ChecksAssumption
  <2> QED BY <2>3, FS_Subset
<1>4. \A check \in this[1] : check \in before[1]
  BY <1>2 DEF this, before
<1>5. Failed(this) \subseteq Failed(before)
  BY <1>2, <1>4
<1> HIDE DEF Failed
<1>6. Cardinality(Failed(this)) <= Cardinality(Failed(before))
  BY <1>3, <1>5, FS_Subset
<1> QED BY <1>6 DEF Failed, FailedChecks, this, before

\* RegressionsAreReal is a fact about any log.
LEMMA Regressions ==
    ASSUME TypeOK
    PROVE  RegressionsAreReal
<1>1. SUFFICES ASSUME NEW r \in DOMAIN log, Len(log[r]) = 1, IsRegression(r)
               PROVE  r > 1 /\ \E check \in log[r][1] : \E e \in DOMAIN log[r - 1] :
                                  check \notin log[r - 1][e]
  BY DEF RegressionsAreReal
<1>2. r # 1 /\ FailedChecks(log[r]) > FailedChecks(log[r - 1])
  BY <1>1 DEF IsRegression, FailedBefore
<1>3. r \in Nat /\ r > 1 /\ r - 1 \in DOMAIN log
  BY <1>2 DEF TypeOK
<1>4. \A s \in DOMAIN log : FailedChecks(log[s]) \in Nat
  <2>1. SUFFICES ASSUME NEW s \in DOMAIN log PROVE FailedChecks(log[s]) \in Nat
    OBVIOUS
  <2> DEFINE executions == log[s]
  <2>2. executions \in Seq(SUBSET Checks)
    BY DEF TypeOK
  <2> HIDE DEF executions
  <2>3. DOMAIN executions = 1..Len(executions) /\ Len(executions) \in Nat
    BY <2>2
  <2>4. IsFiniteSet(1..Len(executions))
    BY <2>3, FS_Interval
  <2>5. IsFiniteSet(DOMAIN executions)
    BY <2>3, <2>4
  <2>6. IsFiniteSet((DOMAIN executions) \X Checks)
    BY <2>5, FS_Product, ChecksAssumption
  <2>7. IsFiniteSet({row \in (DOMAIN executions) \X Checks : row[2] \in executions[row[1]]})
    BY <2>6, FS_Subset
  <2> QED BY <2>7, FS_CardinalityType DEF FailedChecks, executions
<1>5. ~ (FailedChecks(log[r]) <= FailedChecks(log[r - 1]))
  BY <1>2, <1>3, <1>4
<1> QED BY <1>1, <1>3, <1>5, NoNewFailure

\* The stored discrepancies are the counted ones.
LEMMA NextCounts ==
    ASSUME CountsMatchDiscrepancies, [Next]_vars
    PROVE  CountsMatchDiscrepancies'
<1>1. CASE FinishReconciliation
  BY <1>1 DEF FinishReconciliation, Stored, CountsMatchDiscrepancies
<1>2. CASE UNCHANGED <<discrepancies, logged>>
  BY <1>2 DEF CountsMatchDiscrepancies
<1> QED BY <1>1, <1>2
        DEF Next, vars, recon, Deliver, RecordInternal, ApplyFirstChange, Backfill, StartRun, RepeatRun,
            FailTask, LandLayer1, StageLayer2, RunChecks, LoadLayer3, LoadRaises, BeginReconciliation, FailReconciliation

----------------------------------------------------------------------------
(* The theorems.                                                           *)

Inv == TypeOK /\ Shape /\ LoadInv /\ NothingLoadedUnchecked /\ CountsMatchDiscrepancies

\* Inv is inductive.
THEOREM FeedInvariant == Spec => []Inv
<1>1. Init => Inv
  <2>1. SUFFICES ASSUME Init PROVE Inv
    OBVIOUS
  <2>2. DOMAIN fact = {} /\ discrepancies = {} /\ logged = 0 /\ task = "idle"
    BY <2>1 DEF Init, NoRows
  <2> QED BY <2>1, <2>2, InitType, FS_EmptySet
          DEF Inv, LoadInv, NothingLoadedUnchecked, CountsMatchDiscrepancies
<1>2. Inv /\ [Next]_vars => Inv'
  BY NextType, NextLoadInv, NextCounts DEF Inv
<1> QED BY <1>1, <1>2, PTL DEF Spec

\* Every table holds rows of its own columns, for any files, contents, checks
\* and keys.
THEOREM TypeCorrect == Spec => []TypeOK
BY FeedInvariant, PTL DEF Inv

\* NothingLoadedUnchecked: no order of deliveries, failed tasks and repeated
\* runs loads a row that a CRITICAL check counts without the failure being in
\* quarantine.
THEOREM ChecksTheorem == Spec => []NothingLoadedUnchecked
BY FeedInvariant, PTL DEF Inv

\* CountsMatchDiscrepancies: however often a run_id is repeated, what is
\* stored for it is what its last execution counted.
THEOREM CountsTheorem == Spec => []CountsMatchDiscrepancies
BY FeedInvariant, PTL DEF Inv

\* RegressionsAreReal: dq_table_health blames no run that was executed once
\* unless it failed a check that the run before it passed.
THEOREM RegressionsTheorem == Spec => []RegressionsAreReal
<1>1. Inv => RegressionsAreReal
  BY Regressions DEF Inv
<1> QED BY <1>1, FeedInvariant, PTL

\* LateStaysLate: no load takes a late flag back.
THEOREM LateTheorem == Spec => LateStaysLate
<1>1. Inv /\ [Next]_vars => [\A d \in DOMAIN fact : fact[d].late => fact'[d].late]_vars
  BY NextLoadInv DEF Inv
<1> QED BY <1>1, FeedInvariant, PTL DEF Spec, LateStaysLate

\* StagingIsOrderFree: whatever files there are, whenever each was delivered
\* and however often, staging gives a deposit the status of the last-named file
\* it is in, and flags it if any delivery so far was late or drifted.
THEOREM StagingTheorem == Spec => StagingIsOrderFree
<1>1. ASSUME Inv, StageLayer2, NEW d \in DOMAIN staged'
      PROVE  LET known == d \in DOMAIN staged IN
             /\ \A f \in Holding(d) : (\A g \in Holding(d) : g <= f) =>
                   staged'[d].status = raw[f][d].status
             /\ staged'[d].late <=>
                   (known /\ staged[d].late) \/ \E f \in Holding(d) : Late(f, raw[f][d])
             /\ staged'[d].drift <=>
                   (known /\ staged[d].drift) \/ \E f \in Holding(d) : raw[f][d].drifted
  <2>1. StagedSoFar(Files, staged')
    BY <1>1, StagedAll DEF Inv
  <2> QED BY <1>1, <2>1 DEF StagedSoFar, Holding
<1>2. Inv /\ [Next]_vars =>
        [StageLayer2 =>
          \A d \in DOMAIN staged' :
              LET known == d \in DOMAIN staged IN
              /\ \A f \in Holding(d) : (\A g \in Holding(d) : g <= f) =>
                    staged'[d].status = raw[f][d].status
              /\ staged'[d].late <=>
                    (known /\ staged[d].late) \/ \E f \in Holding(d) : Late(f, raw[f][d])
              /\ staged'[d].drift <=>
                    (known /\ staged[d].drift) \/ \E f \in Holding(d) : raw[f][d].drifted]_vars
  BY <1>1
<1> QED BY <1>2, FeedInvariant, PTL DEF Spec, StagingIsOrderFree
=============================================================================
