------------------------- MODULE RepositoriesProofs -------------------------
(***************************************************************************)
(* The migrations implement the version history, and what the tables hold  *)
(* is unique and refers to what is there, for any number of callers,       *)
(* processes, ids and calls.                                               *)
(***************************************************************************)
EXTENDS Repositories, FiniteSetTheorems, TLAPS

(***************************************************************************)
(* The inductive invariant of the migrations                               *)
(***************************************************************************)

\* Versions before the n-th.
Below(n) == {v \in 1..3 : v < n}

MigrationTypeOK ==
  /\ schema \in [AllTables -> {"none", "repository", "migration"}]
  /\ applied \subseteq 1..3
  /\ pc \in [Migrator -> {"idle", "upgrade", "commit"}]
  /\ known \in [Migrator -> SUBSET (1..3)]
  /\ newly \in [Migrator -> SUBSET (1..3)]
  /\ statement \in [Migrator -> 1..4]
  /\ writer \in Migrator \cup {Nobody}
  /\ reported \in [1..3 -> Nat]

\* The n-th migration of a process has created the tables of its first statements.
Created(n, statements) == \A k \in 1..statements - 1 : k <= Len(Upgrades[n]) => Exists(Upgrades[n][k])

\* Versions are recorded in order, each with its tables.
HistoryInv ==
  /\ \E n \in 1..4 : applied = Below(n)
  /\ \A v \in applied : Created(v, 4)
  /\ \A v \in 1..3 : reported[v] <= 1 /\ (reported[v] = 1 => v \in applied)

\* A process is at the first version it does not know of, all those before it are
\* recorded, and while it commits one nobody else has recorded it.
ProcessInv(m) ==
  /\ Skips(m) \subseteq applied
  /\ \E n \in 1..4 :
       /\ Skips(m) = Below(n)
       /\ n <= 3 => Created(n, statement[m])
       /\ pc[m] = "commit" => n <= 3 /\ n \notin applied /\ statement[m] > Len(Upgrades[n])
  /\ pc[m] = "idle" => newly[m] = {} /\ known[m] = {} /\ statement[m] = 1
  /\ pc[m] = "commit" <=> writer = m
  /\ \A v \in newly[m] : reported[v] = 0 /\ \A other \in Migrator : v \in newly[other] => other = m

MigrationInv == MigrationTypeOK /\ HistoryInv /\ \A m \in Migrator : ProcessInv(m)

(***************************************************************************)
(* Versions                                                                *)
(***************************************************************************)

LEMMA VersionsAre ==
  /\ DOMAIN Version = 1..3 /\ DOMAIN Sorted = 1..3
  /\ \A k \in 1..3 : Sorted[k] = k
  /\ \A v \in 1..3 : Len(Upgrades[v]) \in 1..3 /\ 4 > Len(Upgrades[v]) /\ DOMAIN Upgrades[v] = 1..Len(Upgrades[v])
BY DEF Version, Sorted, Upgrades

\* The least element of a set of versions.
LEMMA LeastVersion ==
  ASSUME NEW n \in 1..3, NEW S, S = {v \in 1..3 : v >= n}
  PROVE  Min(S) = n
<1>1. n \in S /\ \A y \in S : n <= y
  OBVIOUS
<1>2. \A x \in S : (\A y \in S : x <= y) => x = n
  OBVIOUS
<1> QED
  BY <1>1, <1>2 DEF Min

LEMMA AtIs ==
  ASSUME NEW m \in Migrator, NEW n \in 1..3, Skips(m) = Below(n)
  PROVE  At(m) = n /\ ~Done(m)
<1>1. {k \in DOMAIN Sorted : Sorted[k] \notin Skips(m)} = {v \in 1..3 : v >= n}
  BY VersionsAre DEF Below
<1>2. Min({k \in DOMAIN Sorted : Sorted[k] \notin Skips(m)}) = n
  BY <1>1, LeastVersion
<1>3. Sorted[n] = n /\ n \notin Skips(m)
  BY VersionsAre DEF Below
<1> QED
  BY <1>2, <1>3, VersionsAre DEF At, Done

LEMMA DoneIs ==
  ASSUME NEW m \in Migrator, Skips(m) = Below(4)
  PROVE  Done(m)
BY VersionsAre DEF Below, Done

LEMMA BelowNext ==
  ASSUME NEW n \in 1..3
  PROVE  Below(n) \cup {n} = Below(n + 1) /\ n \notin Below(n)
BY DEF Below

\* A version that is not recorded although those before it are is the next one.
LEMMA NextVersion ==
  ASSUME NEW n \in 1..3, NEW k \in 1..4, Below(n) \subseteq Below(k), n \notin Below(k)
  PROVE  n = k
<1>1. n >= k
  BY DEF Below
<1>2. CASE n > k
  <2>1. k \in Below(n) /\ k \notin Below(k)
    BY <1>2 DEF Below
  <2> QED
    BY <2>1
<1> QED
  BY <1>1, <1>2

LEMMA TablesExist ==
  ASSUME NEW n \in 1..3, NEW s \in 1..4, Created(n, s), s > Len(Upgrades[n])
  PROVE  \A t \in CreatedBy(n) : Exists(t)
BY VersionsAre DEF Created, CreatedBy

LEMMA TableOf ==
  ASSUME NEW v \in 1..3, NEW k \in 1..Len(Upgrades[v])
  PROVE  Upgrades[v][k] \in AllTables /\ Upgrades[v][k] \in CreatedBy(v)
<1>1. k \in DOMAIN Upgrades[v] /\ v \in DOMAIN Version
  BY VersionsAre
<1> QED
  BY <1>1 DEF AllTables, CreatedBy

\* Tables never go.
TablesKept == \A t \in AllTables : Exists(t) => Exists(t)'

LEMMA CreatedKept ==
  ASSUME NEW n \in 1..3, NEW s \in 1..4, TablesKept, Created(n, s)
  PROVE  Created(n, s)'
<1> SUFFICES ASSUME NEW k \in 1..s - 1, k <= Len(Upgrades[n])
             PROVE  Exists(Upgrades[n][k])'
  BY DEF Created
<1>1. k \in 1..Len(Upgrades[n])
  BY VersionsAre
<1> QED
  BY <1>1, TableOf DEF Created, TablesKept

LEMMA HistoryKept ==
  ASSUME HistoryInv, TablesKept, UNCHANGED <<applied, reported>>
  PROVE  HistoryInv'
<1>1. \A v \in applied : v \in 1..3
  BY DEF HistoryInv, Below
<1>2. \A v \in applied : Created(v, 4)'
  BY <1>1, CreatedKept DEF HistoryInv
<1> QED
  BY <1>2 DEF HistoryInv

\* A process keeps its part of the invariant while others do what does not concern it.
LEMMA ProcessKept ==
  ASSUME NEW m \in Migrator, MigrationTypeOK, ProcessInv(m), TablesKept, applied \subseteq applied',
         UNCHANGED <<pc[m], known[m], newly[m], statement[m]>>,
         (writer' = m) <=> (writer = m),
         pc[m] = "commit" => applied' = applied,
         \A v \in newly[m] : reported'[v] = reported[v],
         \A v \in newly[m] : \A other \in Migrator : v \in newly'[other] => v \in newly[other]
  PROVE  ProcessInv(m)'
<1>1. PICK n \in 1..4 : /\ Skips(m) = Below(n)
                        /\ n <= 3 => Created(n, statement[m])
                        /\ pc[m] = "commit" => n <= 3 /\ n \notin applied /\ statement[m] > Len(Upgrades[n])
  BY DEF ProcessInv
<1>2. Skips(m)' = Skips(m)
  BY DEF Skips
<1>3. n <= 3 => Created(n, statement[m])'
  BY <1>1, CreatedKept DEF MigrationTypeOK
<1>4. \E k \in 1..4 :
        /\ Skips(m)' = Below(k)
        /\ k <= 3 => Created(k, statement[m])'
        /\ pc'[m] = "commit" => k <= 3 /\ k \notin applied' /\ statement'[m] > Len(Upgrades[k])
  BY <1>1, <1>2, <1>3
<1> QED
  BY <1>2, <1>4 DEF ProcessInv

(***************************************************************************)
(* The migrations' steps                                                   *)
(***************************************************************************)

LEMMA MigrationInit ==
  ASSUME Init
  PROVE  MigrationInv
<1>1. schema \in [AllTables -> {"none", "repository", "migration"}]
  <2>1. PICK used \in {{}, {"customer", "invoice"}} :
          schema = [t \in AllTables |-> IF backend = "sqlite" /\ t \in used THEN "repository" ELSE "none"]
    BY DEF Init
  <2> QED
    BY <2>1
<1>2. MigrationTypeOK
  BY <1>1, VersionsAre DEF Init, MigrationTypeOK
<1>3. applied = Below(1)
  BY DEF Init, Below
<1>4. HistoryInv
  BY <1>3, VersionsAre DEF Init, HistoryInv
<1>5. ASSUME NEW m \in Migrator
      PROVE  ProcessInv(m)
  <2>1. Skips(m) = Below(1) /\ statement[m] = 1 /\ pc[m] = "idle" /\ newly[m] = {} /\ known[m] = {}
    BY DEF Init, Skips, Below
  <2>2. Created(1, statement[m])
    BY <2>1 DEF Created
  <2>3. writer # m
    BY RepositoriesAssumption DEF Init
  <2>4. \E n \in 1..4 :
          /\ Skips(m) = Below(n)
          /\ n <= 3 => Created(n, statement[m])
          /\ pc[m] = "commit" => n <= 3 /\ n \notin applied /\ statement[m] > Len(Upgrades[n])
    BY <2>1, <2>2
  <2> QED
    BY <1>3, <2>1, <2>3, <2>4 DEF ProcessInv
<1> QED
  BY <1>2, <1>4, <1>5 DEF MigrationInv

LEMMA OpenStep ==
  ASSUME MigrationInv, NEW t \in Table, Open(t)
  PROVE  MigrationInv' /\ TablesKept
<1>1. t \in AllTables
  BY DEF AllTables
<1>2. schema' \in [AllTables -> {"none", "repository", "migration"}] /\ TablesKept
  BY <1>1 DEF Open, MigrationInv, MigrationTypeOK, TablesKept, Exists
<1>3. UNCHANGED <<applied, pc, known, newly, statement, writer, reported>>
  BY DEF Open, migration
<1>4. MigrationTypeOK'
  BY <1>2, <1>3 DEF MigrationInv, MigrationTypeOK
<1>5. HistoryInv'
  BY <1>2, <1>3, HistoryKept DEF MigrationInv
<1>6. \A m \in Migrator : ProcessInv(m)'
  BY <1>2, <1>3, ProcessKept DEF MigrationInv
<1> QED
  BY <1>2, <1>4, <1>5, <1>6 DEF MigrationInv

LEMMA OtherStep ==
  ASSUME MigrationInv, UNCHANGED <<schema, migration>>
  PROVE  MigrationInv' /\ TablesKept
<1>1. TablesKept
  BY DEF TablesKept, Exists
<1>2. UNCHANGED <<applied, pc, known, newly, statement, writer, reported>>
  BY DEF migration
<1>3. MigrationTypeOK'
  BY <1>2 DEF MigrationInv, MigrationTypeOK
<1>4. HistoryInv'
  BY <1>1, <1>2, HistoryKept DEF MigrationInv
<1>5. \A m \in Migrator : ProcessInv(m)'
  BY <1>1, <1>2, ProcessKept DEF MigrationInv
<1> QED
  BY <1>1, <1>3, <1>4, <1>5 DEF MigrationInv

LEMMA StartStep ==
  ASSUME MigrationInv, NEW m \in Migrator, StartMigrations(m)
  PROVE  MigrationInv' /\ TablesKept
<1>1. /\ UNCHANGED <<schema, applied, newly, statement, writer, reported>>
      /\ known' = [known EXCEPT ![m] = applied]
      /\ pc' = [pc EXCEPT ![m] = "upgrade"]
      /\ pc[m] = "idle"
  BY DEF StartMigrations, data
<1>2. TablesKept
  BY <1>1 DEF TablesKept, Exists
<1>3. MigrationTypeOK'
  BY <1>1 DEF MigrationInv, MigrationTypeOK
<1>4. HistoryInv'
  BY <1>1, <1>2, HistoryKept DEF MigrationInv
<1>5. ProcessInv(m)'
  <2>1. newly[m] = {} /\ statement[m] = 1 /\ writer # m
    BY <1>1 DEF MigrationInv, ProcessInv
  <2>2. PICK n \in 1..4 : applied = Below(n)
    BY DEF MigrationInv, HistoryInv
  <2>3. Skips(m)' = Below(n)
    BY <1>1, <2>1, <2>2 DEF Skips, MigrationInv, MigrationTypeOK
  <2>4. Created(n, statement[m])'
    BY <1>1, <2>1 DEF Created
  <2>5. pc'[m] = "upgrade"
    BY <1>1 DEF MigrationInv, MigrationTypeOK
  <2> QED
    BY <1>1, <2>1, <2>2, <2>3, <2>4, <2>5 DEF ProcessInv
<1>6. ASSUME NEW other \in Migrator, other # m
      PROVE  ProcessInv(other)'
  <2>1. UNCHANGED <<pc[other], known[other], newly[other], statement[other]>>
    BY <1>1, <1>6 DEF MigrationInv, MigrationTypeOK
  <2> QED
    BY <1>1, <1>2, <2>1, ProcessKept DEF MigrationInv
<1> QED
  BY <1>2, <1>3, <1>4, <1>5, <1>6 DEF MigrationInv

LEMMA CreateStep ==
  ASSUME MigrationInv, NEW m \in Migrator, CreateTable(m)
  PROVE  MigrationInv' /\ TablesKept
<1> DEFINE t == Upgrades[At(m)][statement[m]]
<1>1. /\ UNCHANGED <<applied, pc, known, newly, writer, reported>>
      /\ schema' = [schema EXCEPT ![t] = IF @ = "none" THEN "migration" ELSE @]
      /\ statement' = [statement EXCEPT ![m] = @ + 1]
      /\ pc[m] = "upgrade" /\ ~Done(m)
      /\ statement[m] <= Len(Upgrades[At(m)])
  BY DEF CreateTable, Upgrading
<1>2. PICK n \in 1..3 : Skips(m) = Below(n) /\ Created(n, statement[m])
  BY <1>1, DoneIs DEF MigrationInv, ProcessInv
<1>3. At(m) = n
  BY <1>2, AtIs
<1>4. t = Upgrades[n][statement[m]] /\ t \in AllTables /\ statement[m] \in 1..3
  <2>1. statement[m] \in 1..4 /\ statement[m] <= Len(Upgrades[n]) /\ Len(Upgrades[n]) \in 1..3
    BY <1>1, <1>3, VersionsAre DEF MigrationInv, MigrationTypeOK
  <2>2. statement[m] \in 1..Len(Upgrades[n])
    BY <2>1
  <2> QED
    BY <1>3, <2>1, <2>2, TableOf
<1> HIDE DEF t
<1> DEFINE by == IF schema[t] = "none" THEN "migration" ELSE schema[t]
<1>5. schema' \in [AllTables -> {"none", "repository", "migration"}] /\ TablesKept /\ schema'[t] # "none"
  <2>1. schema \in [AllTables -> {"none", "repository", "migration"}]
    BY DEF MigrationInv, MigrationTypeOK
  <2>2. by \in {"repository", "migration"}
    BY <1>4, <2>1
  <2>3. schema' = [schema EXCEPT ![t] = by]
    BY <1>1
  <2> HIDE DEF by
  <2>4. schema'[t] = by /\ \A s \in AllTables : schema'[s] = (IF s = t THEN by ELSE schema[s])
    BY <1>4, <2>1, <2>3
  <2> QED
    BY <2>1, <2>2, <2>3, <2>4 DEF TablesKept, Exists
<1>6. MigrationTypeOK'
  BY <1>1, <1>4, <1>5 DEF MigrationInv, MigrationTypeOK
<1>7. HistoryInv'
  BY <1>1, <1>5, HistoryKept DEF MigrationInv
<1>8. ProcessInv(m)'
  <2>1. Skips(m)' = Below(n)
    BY <1>1, <1>2 DEF Skips
  <2>2. ASSUME NEW k \in 1..statement[m], k <= Len(Upgrades[n])
        PROVE  Exists(Upgrades[n][k])'
    <3>1. CASE k = statement[m]
      BY <1>4, <1>5, <3>1 DEF Exists
    <3>2. CASE k # statement[m]
      <4>1. k \in 1..statement[m] - 1 /\ k \in 1..Len(Upgrades[n])
        BY <1>4, <2>2, <3>2, VersionsAre
      <4> QED
        BY <1>2, <1>5, <2>2, <4>1, TableOf DEF Created, TablesKept
    <3> QED
      BY <3>1, <3>2
  <2>3. statement'[m] = statement[m] + 1
    BY <1>1 DEF MigrationInv, MigrationTypeOK
  <2>4. statement'[m] - 1 = statement[m]
    BY <1>4, <2>3
  <2>5. Created(n, statement[m])'
    BY <2>2, <2>4 DEF Created
  <2>6. ProcessInv(m)
    BY DEF MigrationInv
  <2> QED
    BY <1>1, <2>1, <2>5, <2>6 DEF ProcessInv, Skips
<1>9. ASSUME NEW other \in Migrator, other # m
      PROVE  ProcessInv(other)'
  <2>1. UNCHANGED <<pc[other], known[other], newly[other], statement[other]>>
    BY <1>1, <1>9 DEF MigrationInv, MigrationTypeOK
  <2> QED
    BY <1>1, <1>5, <2>1, ProcessKept DEF MigrationInv
<1> QED
  BY <1>5, <1>6, <1>7, <1>8, <1>9 DEF MigrationInv

\* A process that returns, fails or dies leaves the others as they are.
LEMMA ForgetStep ==
  ASSUME MigrationInv, NEW m \in Migrator, Forget(m), UNCHANGED <<schema, applied>>,
         writer' \in Migrator \cup {Nobody}, writer' # m,
         \A other \in Migrator : other # m => ((writer' = other) <=> (writer = other)),
         reported' \in [1..3 -> Nat], HistoryInv',
         \A v \in 1..3 : v \notin newly[m] => reported'[v] = reported[v]
  PROVE  MigrationInv' /\ TablesKept
<1>1. TablesKept
  BY DEF TablesKept, Exists
<1>2. /\ pc' = [pc EXCEPT ![m] = "idle"]
      /\ known' = [known EXCEPT ![m] = {}]
      /\ newly' = [newly EXCEPT ![m] = {}]
      /\ statement' = [statement EXCEPT ![m] = 1]
  BY DEF Forget
<1>3. MigrationTypeOK'
  BY <1>2 DEF MigrationInv, MigrationTypeOK
<1>4. ProcessInv(m)'
  <2>1. pc'[m] = "idle" /\ known'[m] = {} /\ newly'[m] = {} /\ statement'[m] = 1
    BY <1>2 DEF MigrationInv, MigrationTypeOK
  <2>2. Skips(m)' = Below(1)
    BY <2>1 DEF Skips, Below
  <2>3. Created(1, statement[m])'
    BY <2>1 DEF Created
  <2>4. Below(1) \subseteq applied'
    BY DEF Below
  <2> QED
    BY <2>1, <2>2, <2>3, <2>4 DEF ProcessInv
<1>5. ASSUME NEW other \in Migrator, other # m
      PROVE  ProcessInv(other)'
  <2>1. UNCHANGED <<pc[other], known[other], newly[other], statement[other]>>
    BY <1>2, <1>5 DEF MigrationInv, MigrationTypeOK
  <2>2. \A v \in newly[other] : v \in 1..3 /\ v \notin newly[m]
    BY <1>5 DEF MigrationInv, MigrationTypeOK, ProcessInv
  <2>3. \A v \in newly[other] : \A third \in Migrator : v \in newly'[third] => v \in newly[third]
    BY <1>2 DEF MigrationInv, MigrationTypeOK
  <2> QED
    BY <1>1, <1>5, <2>1, <2>2, <2>3, ProcessKept DEF MigrationInv
<1> QED
  BY <1>1, <1>3, <1>4, <1>5 DEF MigrationInv

\* Where a process stands that has not finished.
LEMMA AtVersion ==
  ASSUME MigrationInv, NEW m \in Migrator, ~Done(m)
  PROVE  \E n \in 1..3 : /\ Skips(m) = Below(n) /\ At(m) = n
                         /\ Created(n, statement[m])
                         /\ pc[m] = "commit" => n \notin applied /\ statement[m] > Len(Upgrades[n])
<1>1. PICK n \in 1..4 : /\ Skips(m) = Below(n)
                        /\ n <= 3 => Created(n, statement[m])
                        /\ pc[m] = "commit" => n <= 3 /\ n \notin applied /\ statement[m] > Len(Upgrades[n])
  BY DEF MigrationInv, ProcessInv
<1>2. n \in 1..3
  BY <1>1, DoneIs
<1> QED
  BY <1>1, <1>2, AtIs

LEMMA InsertStep ==
  ASSUME MigrationInv, NEW m \in Migrator, InsertVersion(m)
  PROVE  MigrationInv' /\ TablesKept
<1>1. UNCHANGED <<schema, applied, reported>> /\ writer = Nobody /\ pc[m] = "upgrade" /\ ~Done(m)
  BY DEF InsertVersion, Upgrading, data
<1>2. TablesKept
  BY <1>1 DEF TablesKept, Exists
<1>3. HistoryInv'
  BY <1>1, <1>2, HistoryKept DEF MigrationInv
<1>4. \A other \in Migrator : writer # other
  BY <1>1, RepositoriesAssumption
<1>5. CASE Forget(m) /\ UNCHANGED writer
  BY <1>1, <1>3, <1>4, <1>5, ForgetStep DEF MigrationInv, MigrationTypeOK
<1>6. CASE RecordIsNew(At(m)) /\ writer' = m /\ pc' = [pc EXCEPT ![m] = "commit"]
           /\ UNCHANGED <<known, newly, statement>>
  <2>1. MigrationTypeOK'
    BY <1>1, <1>6 DEF MigrationInv, MigrationTypeOK
  <2>2. PICK n \in 1..3 : Skips(m) = Below(n) /\ At(m) = n /\ Created(n, statement[m])
    BY <1>1, AtVersion
  <2>3. n \notin applied /\ statement[m] > Len(Upgrades[n])
    BY <1>6, <2>2 DEF InsertVersion, RecordIsNew
  <2>4. ProcessInv(m)'
    <3>1. Skips(m)' = Below(n)
      BY <1>6, <2>2 DEF Skips
    <3>2. Created(n, statement[m])'
      BY <1>2, <1>6, <2>2, CreatedKept DEF MigrationInv, MigrationTypeOK
    <3>3. pc'[m] = "commit"
      BY <1>6 DEF MigrationInv, MigrationTypeOK
    <3>4. ProcessInv(m)
      BY DEF MigrationInv
    <3>5. \E k \in 1..4 :
            /\ Skips(m)' = Below(k)
            /\ k <= 3 => Created(k, statement[m])'
            /\ pc'[m] = "commit" => k <= 3 /\ k \notin applied' /\ statement'[m] > Len(Upgrades[k])
      BY <1>1, <1>6, <2>3, <3>1, <3>2
    <3>6. Skips(m)' \subseteq applied'
      BY <1>1, <2>2, <3>1, <3>4 DEF ProcessInv
    <3> QED
      BY <1>1, <1>6, <3>3, <3>4, <3>5, <3>6 DEF ProcessInv
  <2>5. ASSUME NEW other \in Migrator, other # m
        PROVE  ProcessInv(other)'
    <3>1. UNCHANGED <<pc[other], known[other], newly[other], statement[other]>>
      BY <1>6, <2>5 DEF MigrationInv, MigrationTypeOK
    <3> QED
      BY <1>1, <1>2, <1>4, <1>6, <2>5, <3>1, ProcessKept DEF MigrationInv
  <2> QED
    BY <1>2, <1>3, <2>1, <2>4, <2>5 DEF MigrationInv
<1> QED
  BY <1>5, <1>6 DEF InsertVersion

\* While a process commits, the version it is at is the next one.
LEMMA CommitIsNext ==
  ASSUME MigrationInv, NEW m \in Migrator, pc[m] = "commit"
  PROVE  \E n \in 1..3 : /\ Skips(m) = Below(n) /\ At(m) = n
                         /\ Created(n, statement[m]) /\ statement[m] > Len(Upgrades[n])
                         /\ n \notin applied /\ applied = Below(n)
<1>1. PICK n \in 1..4 : /\ Skips(m) = Below(n)
                        /\ n <= 3 => Created(n, statement[m])
                        /\ n <= 3 /\ n \notin applied /\ statement[m] > Len(Upgrades[n])
  BY DEF MigrationInv, ProcessInv
<1>2. n \in 1..3
  BY <1>1
<1>3. PICK k \in 1..4 : applied = Below(k)
  BY DEF MigrationInv, HistoryInv
<1>4. Below(n) \subseteq Below(k)
  BY <1>1, <1>3 DEF MigrationInv, ProcessInv
<1>5. n = k
  BY <1>1, <1>2, <1>3, <1>4, NextVersion
<1> QED
  BY <1>1, <1>2, <1>3, <1>5, AtIs

LEMMA CommitStep ==
  ASSUME MigrationInv, NEW m \in Migrator, CommitVersion(m)
  PROVE  MigrationInv' /\ TablesKept
<1>1. PICK n \in 1..3 : /\ Skips(m) = Below(n) /\ At(m) = n
                        /\ Created(n, statement[m]) /\ statement[m] > Len(Upgrades[n])
                        /\ n \notin applied /\ applied = Below(n)
  BY CommitIsNext DEF CommitVersion
<1>2. /\ UNCHANGED <<schema, known, reported>>
      /\ applied' = applied \cup {n} /\ writer' = Nobody
      /\ pc' = [pc EXCEPT ![m] = "upgrade"]
      /\ newly' = [newly EXCEPT ![m] = @ \cup {n}]
      /\ statement' = [statement EXCEPT ![m] = 1]
  BY <1>1 DEF CommitVersion, data
<1>3. writer = m /\ \A other \in Migrator : writer' # other
  BY <1>2, RepositoriesAssumption DEF CommitVersion, MigrationInv, ProcessInv
<1>4. TablesKept
  BY <1>2 DEF TablesKept, Exists
<1>5. MigrationTypeOK'
  BY <1>2 DEF MigrationInv, MigrationTypeOK
<1>6. applied' = Below(n + 1) /\ n + 1 \in 1..4
  BY <1>1, <1>2, BelowNext
<1>7. HistoryInv'
  <2>1. Created(n, 4)'
    <3>1. \A k \in 1..3 : k <= Len(Upgrades[n]) => k \in 1..statement[m] - 1
      BY <1>1, VersionsAre DEF MigrationInv, MigrationTypeOK
    <3>2. Created(n, 4)
      BY <1>1, <3>1 DEF Created
    <3> QED
      BY <1>4, <3>2, CreatedKept
  <2>2. \A v \in applied : v \in 1..3 /\ Created(v, 4)'
    BY <1>4, CreatedKept DEF MigrationInv, HistoryInv, MigrationTypeOK
  <2>3. \A v \in applied' : Created(v, 4)'
    BY <1>2, <2>1, <2>2
  <2> QED
    BY <1>2, <1>6, <2>3 DEF HistoryInv, MigrationInv
<1>8. ProcessInv(m)'
  <2>1. pc'[m] = "upgrade" /\ newly'[m] = newly[m] \cup {n} /\ statement'[m] = 1
    BY <1>2 DEF MigrationInv, MigrationTypeOK
  <2>2. Skips(m)' = Below(n + 1)
    BY <1>1, <1>2, <2>1, BelowNext DEF Skips
  <2>3. Created(n + 1, statement[m])'
    BY <2>1 DEF Created
  <2>4. reported[n] = 0
    <3>1. reported[n] \in Nat /\ reported[n] <= 1 /\ reported[n] # 1
      BY <1>1 DEF MigrationInv, MigrationTypeOK, HistoryInv
    <3> QED
      BY <3>1
  <2>5. \A other \in Migrator : n \in newly'[other] => other = m
    <3>1. ASSUME NEW other \in Migrator, other # m
          PROVE  n \notin newly'[other]
      <4>1. newly'[other] = newly[other]
        BY <1>2, <3>1 DEF MigrationInv, MigrationTypeOK
      <4> QED
        BY <1>1, <4>1 DEF MigrationInv, ProcessInv, Skips
    <3> QED
      BY <3>1
  <2>6. ASSUME NEW v \in newly[m]
        PROVE  reported[v] = 0 /\ \A other \in Migrator : v \in newly'[other] => other = m
    <3>1. \A other \in Migrator : other # m => newly'[other] = newly[other]
      BY <1>2 DEF MigrationInv, MigrationTypeOK
    <3> QED
      BY <3>1 DEF MigrationInv, ProcessInv
  <2>7. \A v \in newly'[m] : reported'[v] = 0 /\ \A other \in Migrator : v \in newly'[other] => other = m
    BY <1>2, <2>1, <2>4, <2>5, <2>6
  <2> QED
    BY <1>3, <1>6, <2>1, <2>2, <2>3, <2>7 DEF ProcessInv
<1>9. ASSUME NEW other \in Migrator, other # m
      PROVE  ProcessInv(other)'
  <2>1. UNCHANGED <<pc[other], known[other], newly[other], statement[other]>>
    BY <1>2, <1>9 DEF MigrationInv, MigrationTypeOK
  <2>2. pc[other] # "commit" /\ n \notin newly[other]
    BY <1>1, <1>3, <1>9 DEF MigrationInv, ProcessInv, Skips
  <2>3. \A v \in newly[other] : \A third \in Migrator : v \in newly'[third] => v \in newly[third]
    BY <1>2, <2>2 DEF MigrationInv, MigrationTypeOK
  <2> QED
    BY <1>2, <1>3, <1>4, <1>9, <2>1, <2>2, <2>3, ProcessKept DEF MigrationInv
<1> QED
  BY <1>4, <1>5, <1>7, <1>8, <1>9 DEF MigrationInv

LEMMA ReturnStep ==
  ASSUME MigrationInv, NEW m \in Migrator, MigrationsReturn(m)
  PROVE  MigrationInv' /\ TablesKept
<1>1. UNCHANGED <<schema, applied, writer>> /\ Forget(m) /\ pc[m] = "upgrade"
  BY DEF MigrationsReturn, data
<1>2. \A v \in 1..3 : reported'[v] = reported[v] + (IF v \in newly[m] THEN 1 ELSE 0)
  BY VersionsAre DEF MigrationsReturn
<1>3. reported' \in [1..3 -> Nat] /\ \A v \in 1..3 : v \notin newly[m] => reported'[v] = reported[v]
  <2>1. \A v \in 1..3 : reported[v] \in Nat
    BY DEF MigrationInv, MigrationTypeOK
  <2>2. reported' = [v \in 1..3 |-> reported'[v]]
    BY VersionsAre DEF MigrationsReturn
  <2>3. \A v \in 1..3 : reported'[v] \in Nat /\ (v \notin newly[m] => reported'[v] = reported[v])
    BY <1>2, <2>1
  <2> QED
    BY <2>2, <2>3
<1>4. writer # m
  BY <1>1 DEF MigrationInv, ProcessInv
<1>5. HistoryInv'
  <2>1. \A v \in 1..3 : reported'[v] <= 1 /\ (reported'[v] = 1 => v \in applied)
    <3>1. ASSUME NEW v \in 1..3, v \in newly[m]
          PROVE  reported'[v] <= 1 /\ v \in applied
      BY <1>2, <3>1 DEF MigrationInv, ProcessInv, Skips
    <3> QED
      BY <1>3, <3>1 DEF MigrationInv, HistoryInv
  <2>2. \A v \in applied : Created(v, 4)'
    BY <1>1 DEF MigrationInv, HistoryInv, Created, Exists
  <2> QED
    BY <1>1, <2>1, <2>2 DEF MigrationInv, HistoryInv
<1> QED
  BY <1>1, <1>3, <1>4, <1>5, ForgetStep DEF MigrationInv, MigrationTypeOK

LEMMA CrashStep ==
  ASSUME MigrationInv, NEW m \in Migrator, Crash(m)
  PROVE  MigrationInv' /\ TablesKept
<1>1. UNCHANGED <<schema, applied, reported>> /\ Forget(m)
      /\ writer' = IF writer = m THEN Nobody ELSE writer
  BY DEF Crash, data
<1>2. TablesKept
  BY <1>1 DEF TablesKept, Exists
<1>3. HistoryInv'
  BY <1>1, <1>2, HistoryKept DEF MigrationInv
<1>4. writer' \in Migrator \cup {Nobody} /\ writer' # m
  BY <1>1, RepositoriesAssumption DEF MigrationInv, MigrationTypeOK
<1>5. \A other \in Migrator : other # m => ((writer' = other) <=> (writer = other))
  BY <1>1, RepositoriesAssumption
<1> QED
  BY <1>1, <1>3, <1>4, <1>5, ForgetStep DEF MigrationInv, MigrationTypeOK

LEMMA MigrationStep ==
  ASSUME MigrationInv, [Next]_vars
  PROVE  MigrationInv' /\ TablesKept
<1>1. CASE UNCHANGED vars
  BY <1>1, OtherStep DEF vars, migration
<1>2. ASSUME NEW t \in Table, Open(t)
      PROVE  MigrationInv' /\ TablesKept
  BY <1>2, OpenStep
<1>3. ASSUME NEW t \in Table, NEW row \in Entity[t], Add(t, row) \/ Change(t, row)
      PROVE  UNCHANGED <<schema, migration>>
  BY <1>3 DEF Add, Change
<1>4. ASSUME NEW t \in Table, NEW key \in Ids[TypeOf[KeyField[t]]], Delete(t, key)
      PROVE  UNCHANGED <<schema, migration>>
  BY <1>4 DEF Delete
<1>5. ASSUME NEW c \in Caller, CountCustomers(c) \/ AddCustomer(c)
      PROVE  UNCHANGED <<schema, migration>>
  BY <1>5 DEF CountCustomers, AddCustomer, data
<1>6. ASSUME NEW id \in Ids["customer"], AddCustomerAs(id)
      PROVE  UNCHANGED <<schema, migration>>
  BY <1>6 DEF AddCustomerAs
<1>7. ASSUME NEW m \in Migrator,
             \/ StartMigrations(m) \/ CreateTable(m) \/ InsertVersion(m)
             \/ CommitVersion(m) \/ MigrationsReturn(m) \/ Crash(m)
      PROVE  MigrationInv' /\ TablesKept
  BY <1>7, StartStep, CreateStep, InsertStep, CommitStep, ReturnStep, CrashStep
<1> QED
  BY <1>1, <1>2, <1>3, <1>4, <1>5, <1>6, <1>7, OtherStep DEF Next

(***************************************************************************)
(* What the migrations promise                                             *)
(***************************************************************************)

THEOREM MigrationsInv == Spec => []MigrationInv
<1>1. Init => MigrationInv
  BY MigrationInit
<1>2. MigrationInv /\ [Next]_vars => MigrationInv'
  BY MigrationStep
<1> QED
  BY <1>1, <1>2, PTL DEF Spec

\* Whatever the number of processes, of their runs and crashes, and whoever creates
\* tables meanwhile: no two runs of run_migrations return the same version as newly applied.
THEOREM EachVersionReportedOnce == Spec => []ReportedOnce
<1>1. MigrationInv => ReportedOnce
  BY VersionsAre DEF MigrationInv, HistoryInv, ReportedOnce
<1> QED
  BY <1>1, MigrationsInv, PTL

\* The number of versions recorded is that of the last of them.
LEMMA LevelIs ==
  ASSUME NEW n \in 1..4
  PROVE  Cardinality(Below(n)) = n - 1
<1>1. Below(n) = 1..n - 1
  BY DEF Below
<1>2. Cardinality(1..n - 1) = n - 1
  BY FS_Interval
<1> QED
  BY <1>1, <1>2

\* From the tables of the versions that are recorded, those of the next one follow.
LEMMA UpgradeStep ==
  ASSUME MigrationInv, NEW m \in Migrator, CommitVersion(m)
  PROVE  Database!Upgrade
<1> DEFINE tables == {t \in AllTables : Exists(t)}
           TablesOf == [v \in DOMAIN Version |-> CreatedBy(v)]
<1>1. PICK n \in 1..3 : /\ At(m) = n /\ applied = Below(n)
                        /\ Created(n, statement[m]) /\ statement[m] > Len(Upgrades[n])
  BY CommitIsNext DEF CommitVersion
<1>2. applied' = Below(n + 1) /\ UNCHANGED schema
  BY <1>1, BelowNext DEF CommitVersion, data
<1>3. Cardinality(applied) = n - 1 /\ Cardinality(applied)' = n
  <2>1. n \in 1..4 /\ n + 1 \in 1..4
    OBVIOUS
  <2>2. Cardinality(Below(n)) = n - 1 /\ Cardinality(Below(n + 1)) = n
    BY <2>1, LevelIs
  <2> QED
    BY <1>1, <1>2, <2>2
<1>4. ASSUME NEW v \in 1..n
      PROVE  CreatedBy(v) \subseteq tables
  <2>1. v \in 1..3 /\ CreatedBy(v) \subseteq AllTables
    BY VersionsAre DEF AllTables
  <2>2. CASE v = n
    BY <1>1, <2>1, <2>2, TablesExist DEF MigrationInv, MigrationTypeOK
  <2>3. CASE v # n
    <3>1. v \in applied
      BY <1>1, <2>1, <2>3 DEF Below
    <3>2. Created(v, 4)
      BY <3>1 DEF MigrationInv, HistoryInv
    <3>3. 4 > Len(Upgrades[v])
      BY <2>1, VersionsAre
    <3> QED
      BY <2>1, <3>2, <3>3, TablesExist
  <2> QED
    BY <2>2, <2>3
<1>5. Database!Has(n)
  BY <1>4, VersionsAre DEF Database!Has
<1>6. UNCHANGED tables
  BY <1>2 DEF Exists
<1>7. Len(Version) = 3
  BY DEF Version
<1> QED
  BY <1>3, <1>5, <1>6, <1>7 DEF Database!Upgrade

\* A table that is created is one more of the abstract database.
LEMMA TableComes ==
  ASSUME MigrationTypeOK, NEW t \in AllTables, NEW by \in {"repository", "migration"},
         UNCHANGED applied, schema[t] = "none", schema' = [schema EXCEPT ![t] = by]
  PROVE  Database!Create(t)
<1>1. \A s \in AllTables : schema'[s] = (IF s = t THEN by ELSE schema[s])
  BY DEF MigrationTypeOK
<1>2. {s \in AllTables : Exists(s)}' = {s \in AllTables : Exists(s)} \cup {t}
  BY <1>1 DEF Exists
<1> QED
  BY <1>2 DEF Database!Create

LEMMA DatabaseStep ==
  ASSUME MigrationInv, [Next]_vars
  PROVE  Database!Next \/ UNCHANGED <<Cardinality(applied), {t \in AllTables : Exists(t)}>>
<1> DEFINE Stutter == UNCHANGED <<Cardinality(applied), {t \in AllTables : Exists(t)}>>
<1>1. ASSUME UNCHANGED <<schema, applied>>
      PROVE  Stutter
  BY <1>1 DEF Exists
<1>2. ASSUME NEW t \in Table, Open(t)
      PROVE  Database!Next
  <2>1. t \in AllTables
    BY DEF AllTables
  <2>2. Database!Create(t)
    BY <1>2, <2>1, TableComes DEF Open, migration, MigrationInv
  <2> QED
    BY <2>1, <2>2 DEF Database!Next
<1>3. ASSUME NEW m \in Migrator, CreateTable(m)
      PROVE  Database!Next \/ Stutter
  <2> DEFINE t == Upgrades[At(m)][statement[m]]
  <2>1. PICK n \in 1..3 : At(m) = n
    BY <1>3, AtVersion DEF CreateTable, Upgrading
  <2>2. statement[m] \in 1..Len(Upgrades[n])
    BY <1>3, <2>1, VersionsAre DEF CreateTable, MigrationInv, MigrationTypeOK
  <2>3. t \in AllTables
    BY <2>1, <2>2, TableOf
  <2>4. UNCHANGED applied /\ schema' = [schema EXCEPT ![t] = IF schema[t] = "none" THEN "migration" ELSE schema[t]]
    BY <1>3 DEF CreateTable
  <2> HIDE DEF t
  <2>5. CASE schema[t] = "none"
    <3>1. Database!Create(t)
      BY <2>3, <2>4, <2>5, TableComes DEF MigrationInv
    <3> QED
      BY <2>3, <3>1 DEF Database!Next
  <2>6. CASE schema[t] # "none"
    <3>1. schema' = [schema EXCEPT ![t] = schema[t]]
      BY <2>4, <2>6
    <3>2. schema' = schema
      BY <2>3, <3>1 DEF MigrationInv, MigrationTypeOK
    <3> QED
      BY <1>1, <2>4, <3>2
  <2> QED
    BY <2>5, <2>6
<1>4. ASSUME NEW m \in Migrator, CommitVersion(m)
      PROVE  Database!Next
  BY <1>4, UpgradeStep DEF Database!Next
<1>5. ASSUME NEW m \in Migrator,
             StartMigrations(m) \/ InsertVersion(m) \/ MigrationsReturn(m) \/ Crash(m)
      PROVE  UNCHANGED <<schema, applied>>
  BY <1>5 DEF StartMigrations, InsertVersion, MigrationsReturn, Crash, data
<1>6. ASSUME NEW t \in Table, NEW row \in Entity[t], Add(t, row) \/ Change(t, row)
      PROVE  UNCHANGED <<schema, applied>>
  BY <1>6 DEF Add, Change, migration
<1>7. ASSUME NEW t \in Table, NEW key \in Ids[TypeOf[KeyField[t]]], Delete(t, key)
      PROVE  UNCHANGED <<schema, applied>>
  BY <1>7 DEF Delete, migration
<1>8. ASSUME NEW c \in Caller, CountCustomers(c) \/ AddCustomer(c)
      PROVE  UNCHANGED <<schema, applied>>
  BY <1>8 DEF CountCustomers, AddCustomer, data, migration
<1>9. ASSUME NEW id \in Ids["customer"], AddCustomerAs(id)
      PROVE  UNCHANGED <<schema, applied>>
  BY <1>9 DEF AddCustomerAs, migration
<1>10. CASE UNCHANGED vars
  BY <1>1, <1>10 DEF vars
<1> HIDE DEF Stutter
<1>11. Next => Database!Next \/ Stutter
  BY <1>1, <1>2, <1>3, <1>4, <1>5, <1>6, <1>7, <1>8, <1>9 DEF Next
<1> QED
  BY <1>10, <1>11 DEF Stutter

\* However many processes migrate a database and crash, and whoever opens repositories
\* on it meanwhile: it implements the version history of Versions.
THEOREM MigrationsImplementVersions == Spec => UpgradesInOrder
<1>1. Init => Database!Init
  <2>1. Init => Cardinality(applied) = 0
    BY FS_EmptySet DEF Init
  <2> QED
    BY <2>1 DEF Database!Init
<1>2. MigrationInv /\ [Next]_vars =>
        [Database!Next]_<<Cardinality(applied), {t \in AllTables : Exists(t)}>>
  BY DatabaseStep
<1> QED
  BY <1>1, <1>2, MigrationsInv, PTL DEF Spec, UpgradesInOrder, Database!Spec

(***************************************************************************)
(* What tables and memory repositories hold: the inductive invariant       *)
(***************************************************************************)

EntityTypeOK ==
  /\ backend \in {"memory", "sqlite"}
  /\ DOMAIN rows = Table
  /\ rows["customer"] \subseteq CustomerRecord /\ IsFiniteSet(rows["customer"])
  /\ \A t \in Table \ {"customer"} : rows[t] \subseteq Entity[t]
  /\ count \in [Caller -> Nat \cup {NoCount}]
  /\ calls \in 0..MaxCalls /\ runs \in 0..MaxRuns
  /\ disturbed \in BOOLEAN /\ onboarded \subseteq CustomerRecord

\* Memory repositories have no schema; a table that is not there holds nothing.
SchemaInv ==
  /\ backend = "memory" => (\A t \in AllTables : schema[t] = "none") /\ \A m \in Migrator : pc[m] = "idle"
  /\ backend = "sqlite" => \A t \in Table : schema[t] = "none" => rows[t] = {}

\* Undisturbed, the customers in memory have the ids 1..n, and at most one caller has counted them.
CountInv ==
  backend = "memory" /\ ~disturbed =>
    /\ \A x \in rows["customer"] : x.customer_id <= Cardinality(rows["customer"])
    /\ \A c \in Caller : count[c] # NoCount =>
         count[c] = Cardinality(rows["customer"]) /\ \A d \in Caller : count[d] # NoCount => d = c

EntityInv == EntityTypeOK /\ SchemaInv /\ CountInv /\ ReferencesHold /\ KeysFindOne /\ CustomersKept

(***************************************************************************)
(* Keys and references                                                     *)
(***************************************************************************)

\* The least element of a set of numbers, by naming it.
LEMMA LeastIs ==
  ASSUME NEW S, NEW n \in S, S \subseteq Nat, \A y \in S : n <= y
  PROVE  Min(S) = n
<1>1. \A x \in S : (\A y \in S : x <= y) => x = n
  OBVIOUS
<1> QED
  BY <1>1 DEF Min

LEMMA ColumnsAre ==
  /\ Columns("customer") = {"customer_id", "name"}
  /\ Columns("subscription") = {"sub_id", "customer_id"}
  /\ Columns("invoice") = {"invoice_id"}
  /\ Columns("payment") = {"payment_id", "invoice_id"}
BY DEF Columns

LEMMA FieldsAre ==
  /\ DOMAIN IdField = 1..7
  /\ IdField[1] = "id" /\ IdField[2] = "plan_id" /\ IdField[3] = "sub_id" /\ IdField[4] = "invoice_id"
  /\ IdField[5] = "payment_id" /\ IdField[6] = "customer_id" /\ IdField[7] = "code"
BY DEF IdField

LEMMA KeyIs ==
  ASSUME NEW t \in Table, NEW n \in 1..7, IdField[n] \in Columns(t),
         \A i \in 1..7 : i < n => IdField[i] \notin Columns(t)
  PROVE  KeyField[t] = IdField[n]
<1> DEFINE S == {i \in DOMAIN IdField : IdField[i] \in Columns(t)}
<1>1. n \in S /\ S \subseteq Nat
  BY FieldsAre
<1>2. \A y \in S : n <= y
  BY FieldsAre
<1>3. Min(S) = n
  BY <1>1, <1>2, LeastIs
<1> QED
  BY <1>3 DEF KeyField, KeyFrom

LEMMA KeysAre ==
  /\ KeyField["customer"] = "customer_id" /\ KeyField["subscription"] = "sub_id"
  /\ KeyField["invoice"] = "invoice_id" /\ KeyField["payment"] = "invoice_id"
<1>1. KeyField["customer"] = IdField[6]
  <2>1. "customer" \in Table
    BY DEF Table
  <2>2. \A i \in 1..7 : i < 6 => IdField[i] \notin Columns("customer")
    <3>1. \A i \in 1..7 : i < 6 => i = 1 \/ i = 2 \/ i = 3 \/ i = 4 \/ i = 5
      OBVIOUS
    <3> QED
      BY <3>1, FieldsAre, ColumnsAre
  <2> QED
    BY <2>1, <2>2, FieldsAre, ColumnsAre, KeyIs
<1>2. KeyField["subscription"] = IdField[3]
  <2>1. "subscription" \in Table
    BY DEF Table
  <2>2. \A i \in 1..7 : i < 3 => IdField[i] \notin Columns("subscription")
    <3>1. \A i \in 1..7 : i < 3 => i = 1 \/ i = 2
      OBVIOUS
    <3> QED
      BY <3>1, FieldsAre, ColumnsAre
  <2> QED
    BY <2>1, <2>2, FieldsAre, ColumnsAre, KeyIs
<1>3. KeyField["invoice"] = IdField[4] /\ KeyField["payment"] = IdField[4]
  <2>1. "invoice" \in Table /\ "payment" \in Table
    BY DEF Table
  <2>2. \A i \in 1..7 : i < 4 => IdField[i] \notin Columns("invoice") /\ IdField[i] \notin Columns("payment")
    <3>1. \A i \in 1..7 : i < 4 => i = 1 \/ i = 2 \/ i = 3
      OBVIOUS
    <3> QED
      BY <3>1, FieldsAre, ColumnsAre
  <2> QED
    BY <2>1, <2>2, FieldsAre, ColumnsAre, KeyIs
<1> QED
  BY <1>1, <1>2, <1>3, FieldsAre

\* Which tables refer to which, by which column: the key of the table referred to.
LEMMA ReferencesAre ==
  /\ Table \cap DOMAIN Parent = {"subscription", "payment"}
  /\ \A t \in {"subscription", "payment"} :
       /\ Parent[t] \in {"customer", "invoice"} /\ Parent[t] \in Table
       /\ Parent[t] = "customer" => t = "subscription"
       /\ Reference[t] = KeyField[Parent[t]]
<1>1. DOMAIN Parent = {"subscription", "payment", "reconciliation"}
  BY DEF Parent
<1>2. Parent["subscription"] = "customer" /\ Parent["payment"] = "invoice"
  BY DEF Parent
<1>3. Reference["subscription"] = "customer_id" /\ Reference["payment"] = "invoice_id"
  BY DEF Reference
<1> QED
  BY <1>1, <1>2, <1>3, KeysAre DEF Table

(***************************************************************************)
(* The parts of a step                                                     *)
(***************************************************************************)

\* A table that comes holds nothing, so it breaks no key and no reference.
LEMMA SchemaChange ==
  ASSUME EntityInv, UNCHANGED <<backend, rows, callers>>, runs' \in 0..MaxRuns,
         \A t \in AllTables : schema'[t] = schema[t] \/ (backend = "sqlite" /\ schema[t] = "none"),
         backend = "memory" => \A m \in Migrator : pc'[m] = "idle"
  PROVE  EntityInv'
<1>1. UNCHANGED <<count, calls, onboarded, disturbed>>
  BY DEF callers
<1>2. Table \subseteq AllTables
  BY DEF AllTables
<1>3. EntityTypeOK'
  BY <1>1 DEF EntityInv, EntityTypeOK
<1>4. SchemaInv'
  BY <1>2 DEF EntityInv, EntityTypeOK, SchemaInv
<1>5. CountInv' /\ CustomersKept'
  BY <1>1 DEF EntityInv, CountInv, CustomersKept
<1>6. ASSUME NEW t \in Table, schema'[t] # schema[t]
      PROVE  rows[t] = {}
  BY <1>2, <1>6 DEF EntityInv, SchemaInv
<1>7. ReferencesHold'
  <2>1. ASSUME NEW t \in Table \cap DOMAIN Parent, schema'[t] = "migration", NEW row \in rows[t]
        PROVE  \E up \in rows[Parent[t]] : up[Reference[t]] = row[Reference[t]]
    BY <1>6, <2>1 DEF EntityInv, ReferencesHold
  <2> QED
    BY <2>1 DEF ReferencesHold
<1>8. KeysFindOne'
  <2>1. ASSUME NEW t \in Table, ~(t = "payment" /\ schema'[t] = "migration"),
               NEW x \in rows[t], NEW y \in rows[t], x[KeyField[t]] = y[KeyField[t]]
        PROVE  x = y
    <3>1. schema'[t] = schema[t]
      BY <1>6, <2>1
    <3> QED
      BY <2>1, <3>1 DEF EntityInv, KeysFindOne
  <2> QED
    BY <2>1 DEF KeysFindOne
<1> QED
  BY <1>3, <1>4, <1>5, <1>7, <1>8 DEF EntityInv

\* A row that refers to what is there keeps the references, if its table keeps its keys.
LEMMA ReferencesKept ==
  ASSUME ReferencesHold, DOMAIN rows = Table, UNCHANGED schema,
         NEW t \in Table, NEW row, NEW new, rows' = [rows EXCEPT ![t] = new],
         new \subseteq rows[t] \cup {row}, RefersToOne(t, row),
         \A up \in rows[t] : \E kept \in new : kept[KeyField[t]] = up[KeyField[t]]
  PROVE  ReferencesHold'
<1> SUFFICES ASSUME NEW s \in {"subscription", "payment"}, schema[s] = "migration", NEW x \in rows'[s]
             PROVE  \E up \in rows'[Parent[s]] : up[Reference[s]] = x[Reference[s]]
  BY ReferencesAre DEF ReferencesHold
<1>1. s \in Table \cap DOMAIN Parent /\ Parent[s] \in Table /\ Reference[s] = KeyField[Parent[s]]
  BY ReferencesAre
<1>2. x \in rows[s] \/ (s = t /\ x = row)
  BY <1>1
<1>3. PICK up \in rows[Parent[s]] : up[Reference[s]] = x[Reference[s]]
  <2>1. CASE x \in rows[s]
    BY <1>1, <2>1 DEF ReferencesHold
  <2>2. CASE s = t /\ x = row
    BY <1>1, <2>2 DEF RefersToOne
  <2> QED
    BY <1>2, <2>1, <2>2
<1>4. CASE Parent[s] = t
  BY <1>1, <1>3, <1>4
<1>5. CASE Parent[s] # t
  BY <1>1, <1>3, <1>5
<1> QED
  BY <1>4, <1>5

\* Rows that replace those with their key, and rows a primary key tells apart, have
\* one key each, except in a payment table that a migration made.
LEMMA KeysKept ==
  ASSUME KeysFindOne, DOMAIN rows = Table, UNCHANGED schema,
         NEW t \in Table, NEW row, NEW new, rows' = [rows EXCEPT ![t] = new],
         Distinct(t, new) \/ new = (rows[t] \ Found(t, row[KeyField[t]])) \cup {row}
  PROVE  KeysFindOne'
<1> SUFFICES ASSUME NEW s \in Table, ~(s = "payment" /\ schema[s] = "migration"),
                    NEW x \in rows'[s], NEW y \in rows'[s], x[KeyField[s]] = y[KeyField[s]]
             PROVE  x = y
  BY DEF KeysFindOne
<1>1. CASE s # t
  BY <1>1 DEF KeysFindOne
<1>2. CASE s = t /\ Distinct(t, new)
  <2>1. PrimaryKey(t, schema[t]) = KeyField[t]
    BY <1>2 DEF PrimaryKey
  <2> QED
    BY <1>2, <2>1 DEF Distinct
<1>3. CASE s = t /\ new = (rows[t] \ Found(t, row[KeyField[t]])) \cup {row}
  <2>1. \A z \in new : z = row \/ (z \in rows[t] /\ z[KeyField[t]] # row[KeyField[t]])
    BY <1>3 DEF Found
  <2>2. x \in new /\ y \in new
    BY <1>3
  <2> QED
    BY <1>3, <2>1, <2>2 DEF KeysFindOne
<1> QED
  BY <1>1, <1>2, <1>3

(***************************************************************************)
(* The repositories' steps                                                 *)
(***************************************************************************)

\* What a table holds after add or update has the keys it had, and that of the entity.
LEMMA AddedIs ==
  ASSUME EntityInv, NEW t \in Table, NEW row, AddReturns(t, row)
  PROVE  /\ Added(t, row) \subseteq rows[t] \cup {row} /\ row \in Added(t, row)
         /\ RefersToOne(t, row)
         /\ \A up \in rows[t] : \E kept \in Added(t, row) : kept[KeyField[t]] = up[KeyField[t]]
         /\ \/ Distinct(t, Added(t, row))
            \/ Added(t, row) = (rows[t] \ Found(t, row[KeyField[t]])) \cup {row}
<1>1. CASE backend = "memory"
  <2>1. schema[t] = "none"
    BY <1>1 DEF EntityInv, SchemaInv, AllTables
  <2> QED
    BY <1>1, <2>1 DEF Added, Found, RefersToOne
<1>2. CASE backend = "sqlite"
  BY <1>2 DEF Added, AddReturns
<1> QED
  BY <1>1, <1>2 DEF EntityInv, EntityTypeOK

LEMMA UpdatedIs ==
  ASSUME EntityInv, NEW t \in Table, NEW row, UpdateReturns(t, row)
  PROVE  /\ Updated(t, row) \subseteq rows[t] \cup {row}
         /\ RefersToOne(t, row)
         /\ \A up \in rows[t] : \E kept \in Updated(t, row) : kept[KeyField[t]] = up[KeyField[t]]
<1>1. RefersToOne(t, row)
  <2>1. CASE backend = "memory"
    BY <2>1 DEF EntityInv, SchemaInv, AllTables, RefersToOne
  <2>2. CASE backend = "sqlite"
    BY <2>2 DEF UpdateReturns
  <2> QED
    BY <2>1, <2>2 DEF EntityInv, EntityTypeOK
<1>2. \A up \in rows[t] : up \in Updated(t, row) \/ up[KeyField[t]] = row[KeyField[t]]
  BY DEF Updated, Found
<1> QED
  BY <1>1, <1>2 DEF Updated

\* An entity other than a customer is added or changed.
LEMMA EntityStep ==
  ASSUME EntityInv, NEW t \in Table, t # "customer", NEW row \in Entity[t],
         NEW new, rows' = [rows EXCEPT ![t] = new], new \subseteq rows[t] \cup {row},
         RefersToOne(t, row),
         \A up \in rows[t] : \E kept \in new : kept[KeyField[t]] = up[KeyField[t]],
         Distinct(t, new) \/ new = (rows[t] \ Found(t, row[KeyField[t]])) \cup {row},
         Ready(t), Count(1), UNCHANGED <<backend, schema, count, onboarded, disturbed, migration>>
  PROVE  EntityInv'
<1>1. DOMAIN rows = Table /\ "customer" \in Table
  BY DEF EntityInv, EntityTypeOK, Table
<1>2. rows'["customer"] = rows["customer"] /\ \A s \in Table : rows'[s] = (IF s = t THEN new ELSE rows[s])
  BY <1>1
<1>3. UNCHANGED <<pc, runs>>
  BY DEF migration
<1>4. calls' \in 0..MaxCalls
  BY RepositoriesAssumption DEF Count, EntityInv, EntityTypeOK
<1>5. EntityTypeOK'
  BY <1>1, <1>2, <1>3, <1>4 DEF EntityInv, EntityTypeOK
<1>6. SchemaInv'
  BY <1>2, <1>3 DEF EntityInv, SchemaInv, Ready, Exists, EntityTypeOK
<1>7. CountInv' /\ CustomersKept'
  BY <1>2 DEF EntityInv, CountInv, CustomersKept
<1>8. ReferencesHold'
  BY <1>1, ReferencesKept DEF EntityInv
<1>9. KeysFindOne'
  BY <1>1, KeysKept DEF EntityInv
<1> QED
  BY <1>5, <1>6, <1>7, <1>8, <1>9 DEF EntityInv

LEMMA AddStep ==
  ASSUME EntityInv, NEW t \in Table, t # "customer", NEW row \in Entity[t], Add(t, row)
  PROVE  EntityInv'
<1>1. rows' = [rows EXCEPT ![t] = Added(t, row)] /\ AddReturns(t, row)
  BY DEF Add
<1> DEFINE new == Added(t, row)
<1>2. /\ new \subseteq rows[t] \cup {row} /\ RefersToOne(t, row)
      /\ \A up \in rows[t] : \E kept \in new : kept[KeyField[t]] = up[KeyField[t]]
      /\ Distinct(t, new) \/ new = (rows[t] \ Found(t, row[KeyField[t]])) \cup {row}
  BY <1>1, AddedIs
<1>3. Ready(t) /\ Count(1) /\ UNCHANGED <<backend, schema, count, onboarded, disturbed, migration>>
  BY DEF Add
<1>4. rows' = [rows EXCEPT ![t] = new]
  BY <1>1
<1> HIDE DEF new
<1> QED
  BY <1>2, <1>3, <1>4, EntityStep

LEMMA ChangeStep ==
  ASSUME EntityInv, NEW t \in Table, t # "customer", NEW row \in Entity[t], Change(t, row)
  PROVE  EntityInv'
<1>1. rows' = [rows EXCEPT ![t] = Updated(t, row)] /\ UpdateReturns(t, row)
  BY DEF Change
<1>2. Updated(t, row) = (rows[t] \ Found(t, row[KeyField[t]])) \cup {row}
  BY DEF Updated
<1> QED
  BY <1>1, <1>2, UpdatedIs, EntityStep DEF Change

LEMMA DeleteStep ==
  ASSUME EntityInv, MigrationTypeOK, NEW t \in Table, NEW key, Delete(t, key)
  PROVE  EntityInv'
<1> DEFINE gone == Found(t, key)
<1>1. DOMAIN rows = Table /\ "customer" \in Table
  BY DEF EntityInv, EntityTypeOK, Table
<1>2. /\ \A s \in Table : rows'[s] = (IF s = t THEN rows[s] \ gone ELSE rows[s])
      /\ DOMAIN rows' = Table
  BY <1>1 DEF Delete
<1>3. UNCHANGED <<backend, schema, count, pc, runs>> /\ calls' \in 0..MaxCalls
  BY RepositoriesAssumption DEF Delete, migration, Count, EntityInv, EntityTypeOK
<1>4. EntityTypeOK'
  <2>1. rows'["customer"] \subseteq rows["customer"]
    BY <1>1, <1>2
  <2>2. IsFiniteSet(rows'["customer"])
    BY <2>1, FS_Subset DEF EntityInv, EntityTypeOK
  <2>3. disturbed' \in BOOLEAN /\ onboarded' \subseteq onboarded
    BY DEF Delete, EntityInv, EntityTypeOK
  <2> QED
    BY <1>2, <1>3, <2>1, <2>2, <2>3 DEF EntityInv, EntityTypeOK
<1>5. SchemaInv'
  BY <1>2, <1>3 DEF EntityInv, SchemaInv
<1>6. CountInv' /\ CustomersKept'
  <2>1. CASE t = "customer"
    BY <1>1, <1>2, <1>3, <2>1 DEF Delete, EntityInv, EntityTypeOK, CountInv, CustomersKept
  <2>2. CASE t # "customer"
    BY <1>1, <1>2, <1>3, <2>2 DEF Delete, EntityInv, EntityTypeOK, CountInv, CustomersKept
  <2> QED
    BY <2>1, <2>2
<1>7. ReferencesHold'
  <2> SUFFICES ASSUME NEW s \in {"subscription", "payment"}, schema[s] = "migration", NEW x \in rows'[s]
               PROVE  \E up \in rows'[Parent[s]] : up[Reference[s]] = x[Reference[s]]
    BY <1>3, ReferencesAre DEF ReferencesHold
  <2>1. s \in Table \cap DOMAIN Parent /\ Parent[s] \in Table /\ x \in rows[s]
    BY <1>2, ReferencesAre
  <2>2. PICK up \in rows[Parent[s]] : up[Reference[s]] = x[Reference[s]]
    BY <2>1 DEF EntityInv, ReferencesHold
  <2>3. CASE Parent[s] = t
    <3>1. backend = "sqlite"
      BY <2>1 DEF EntityInv, EntityTypeOK, SchemaInv, AllTables
    <3>2. s \in Children(t) \cap Table
      BY <2>1, <2>3 DEF Children
    <3>3. up \notin gone
      BY <2>1, <2>2, <3>1, <3>2 DEF Delete, Unreferenced
    <3> QED
      BY <1>2, <2>1, <2>2, <2>3, <3>3
  <2>4. CASE Parent[s] # t
    BY <1>2, <2>1, <2>2, <2>4
  <2> QED
    BY <2>3, <2>4
<1>8. KeysFindOne'
  BY <1>2, <1>3 DEF EntityInv, KeysFindOne
<1> QED
  BY <1>4, <1>5, <1>6, <1>7, <1>8 DEF EntityInv

(***************************************************************************)
(* Onboarding                                                              *)
(***************************************************************************)

LEMMA CustomerIs ==
  ASSUME EntityInv, NEW id \in Nat \ {0}
  PROVE  /\ Customer(id) \in CustomerRecord
         /\ Customer(id).customer_id = id /\ Customer(id)["customer_id"] = id
<1>1. calls + 1 \in Nat
  BY RepositoriesAssumption DEF EntityInv, EntityTypeOK
<1> QED
  BY <1>1 DEF Customer, CustomerRecord

\* What onboarding a customer does, whoever chose the id.
LEMMA AcknowledgeStep ==
  ASSUME EntityInv, NEW id \in Nat \ {0}, Ready("customer"), Acknowledge(id),
         UNCHANGED <<backend, schema, migration>>,
         count' \in [Caller -> Nat \cup {NoCount}], disturbed' \in BOOLEAN
  PROVE  /\ EntityTypeOK' /\ SchemaInv' /\ ReferencesHold' /\ KeysFindOne'
         /\ backend = "sqlite" => CustomersKept'
         /\ onboarded' = onboarded \cup {Customer(id)}
         /\ rows'["customer"] = Added("customer", Customer(id))
<1> DEFINE row == Customer(id)
           new == Added("customer", row)
<1>1. DOMAIN rows = Table /\ "customer" \in Table
  BY DEF EntityInv, EntityTypeOK, Table
<1>2. rows' = [rows EXCEPT !["customer"] = new] /\ AddReturns("customer", row) /\ onboarded' = onboarded \cup {row}
  BY DEF Acknowledge
<1>3. /\ new \subseteq rows["customer"] \cup {row} /\ RefersToOne("customer", row)
      /\ \A up \in rows["customer"] : \E kept \in new : kept[KeyField["customer"]] = up[KeyField["customer"]]
      /\ Distinct("customer", new) \/ new = (rows["customer"] \ Found("customer", row[KeyField["customer"]])) \cup {row}
  BY <1>1, <1>2, AddedIs
<1>4. row \in CustomerRecord
  BY CustomerIs
<1>5. rows'["customer"] = new /\ \A s \in Table \ {"customer"} : rows'[s] = rows[s]
  BY <1>1, <1>2
<1>6. calls' \in 0..MaxCalls
  BY RepositoriesAssumption DEF Acknowledge, Count, EntityInv, EntityTypeOK
<1>7. UNCHANGED <<pc, runs>>
  BY DEF migration
<1>8. backend = "sqlite" => new = rows["customer"] \cup {row}
  BY DEF Added
<1> HIDE DEF row, new
<1>9. EntityTypeOK'
  <2>1. IsFiniteSet(rows["customer"] \cup {row})
    BY FS_AddElement DEF EntityInv, EntityTypeOK
  <2>2. IsFiniteSet(new)
    BY <1>3, <2>1, FS_Subset
  <2> QED
    BY <1>1, <1>2, <1>3, <1>4, <1>5, <1>6, <1>7, <2>2 DEF EntityInv, EntityTypeOK
<1>10. SchemaInv'
  BY <1>5, <1>7 DEF EntityInv, EntityTypeOK, SchemaInv, Ready, Exists
<1>11. ReferencesHold'
  BY <1>1, <1>2, <1>3, ReferencesKept DEF EntityInv
<1>12. KeysFindOne'
  BY <1>1, <1>2, <1>3, KeysKept DEF EntityInv
<1>13. backend = "sqlite" => CustomersKept'
  BY <1>2, <1>5, <1>8 DEF EntityInv, CustomersKept
<1> QED
  BY <1>2, <1>5, <1>9, <1>10, <1>11, <1>12, <1>13 DEF row, new

LEMMA CountStep ==
  ASSUME EntityInv, MigrationTypeOK, NEW c \in Caller, CountCustomers(c)
  PROVE  EntityInv'
<1>1. /\ UNCHANGED <<backend, schema, rows, calls, onboarded, pc, runs>>
      /\ count' = [count EXCEPT ![c] = Cardinality(rows["customer"])]
      /\ disturbed' = (disturbed \/ \E d \in Caller : count[d] # NoCount)
  BY DEF CountCustomers, data, migration
<1>2. Cardinality(rows["customer"]) \in Nat
  BY FS_CardinalityType DEF EntityInv, EntityTypeOK
<1>3. EntityTypeOK'
  BY <1>1, <1>2 DEF EntityInv, EntityTypeOK
<1>4. SchemaInv' /\ ReferencesHold' /\ KeysFindOne' /\ CustomersKept'
  <2>1. SchemaInv' /\ ReferencesHold'
    BY <1>1 DEF EntityInv, SchemaInv, ReferencesHold
  <2>2. KeysFindOne' /\ CustomersKept'
    BY <1>1 DEF EntityInv, EntityTypeOK, KeysFindOne, CustomersKept
  <2> QED
    BY <2>1, <2>2
<1>5. CountInv'
  <2> SUFFICES ASSUME backend = "memory", ~disturbed'
               PROVE  /\ \A x \in rows["customer"] : x.customer_id <= Cardinality(rows["customer"])
                      /\ \A d \in Caller : count'[d] # NoCount =>
                           /\ count'[d] = Cardinality(rows["customer"])
                           /\ \A e \in Caller : count'[e] # NoCount => e = d
    BY <1>1 DEF CountInv
  <2>1. ~disturbed /\ \A d \in Caller : count[d] = NoCount
    BY <1>1
  <2>2. \A d \in Caller : count'[d] = (IF d = c THEN Cardinality(rows["customer"]) ELSE NoCount)
    BY <1>1, <2>1 DEF EntityInv, EntityTypeOK
  <2> QED
    BY <2>1, <2>2 DEF EntityInv, CountInv
<1> QED
  BY <1>3, <1>4, <1>5 DEF EntityInv

LEMMA AddCustomerStep ==
  ASSUME EntityInv, NEW c \in Caller, AddCustomer(c)
  PROVE  EntityInv'
<1> DEFINE id == NextId(count[c])
<1>1. /\ UNCHANGED <<backend, schema, disturbed, migration>> /\ Ready("customer")
      /\ count[c] # NoCount /\ count' = [count EXCEPT ![c] = NoCount]
  BY DEF AddCustomer
<1>2. count' \in [Caller -> Nat \cup {NoCount}] /\ disturbed' \in BOOLEAN
  BY <1>1 DEF EntityInv, EntityTypeOK
<1>3. count[c] \in Nat /\ id \in Nat \ {0} /\ id = count[c] + 1
  BY <1>1 DEF EntityInv, EntityTypeOK, NextId
<1>4. \A d \in Caller : count'[d] = (IF d = c THEN NoCount ELSE count[d])
  BY <1>1 DEF EntityInv, EntityTypeOK
<1> HIDE DEF id
<1>5. CASE Acknowledge(id)
  <2>1. /\ EntityTypeOK' /\ SchemaInv' /\ ReferencesHold' /\ KeysFindOne'
        /\ backend = "sqlite" => CustomersKept'
        /\ onboarded' = onboarded \cup {Customer(id)}
        /\ rows'["customer"] = Added("customer", Customer(id))
    BY <1>1, <1>2, <1>3, <1>5, AcknowledgeStep
  <2>2. CASE backend = "memory" /\ ~disturbed
    <3>1. /\ \A x \in rows["customer"] : x.customer_id <= Cardinality(rows["customer"])
          /\ id = Cardinality(rows["customer"]) + 1
          /\ \A d \in Caller : count[d] # NoCount => d = c
      BY <1>1, <1>3, <2>2 DEF EntityInv, CountInv
    <3>2. Customer(id).customer_id = id /\ Customer(id)["customer_id"] = id
      BY <1>3, CustomerIs
    <3>3. \A x \in rows["customer"] : x.customer_id \in Nat /\ x.customer_id # id
      <4>1. Cardinality(rows["customer"]) \in Nat
        BY FS_CardinalityType DEF EntityInv, EntityTypeOK
      <4>2. \A x \in rows["customer"] : x.customer_id \in Nat
        BY DEF EntityInv, EntityTypeOK, CustomerRecord
      <4> QED
        BY <3>1, <4>1, <4>2
    <3>4. Found("customer", id) = {} /\ Customer(id) \notin rows["customer"]
      BY <3>2, <3>3, KeysAre DEF Found
    <3>5. rows'["customer"] = rows["customer"] \cup {Customer(id)}
      BY <2>1, <2>2, <3>2, <3>4, KeysAre DEF Added
    <3>6. Cardinality(rows'["customer"]) = Cardinality(rows["customer"]) + 1
      BY <3>4, <3>5, FS_AddElement DEF EntityInv, EntityTypeOK
    <3>7. Cardinality(rows["customer"]) \in Nat
      BY FS_CardinalityType DEF EntityInv, EntityTypeOK
    <3>8. \A x \in rows'["customer"] : x.customer_id <= Cardinality(rows'["customer"])
      BY <3>1, <3>2, <3>3, <3>5, <3>6, <3>7
    <3>9. \A d \in Caller : count'[d] = NoCount
      BY <1>4, <3>1
    <3>10. CustomersKept'
      BY <1>1, <2>1, <2>2, <3>5 DEF EntityInv, CustomersKept
    <3>11. CountInv'
      BY <3>8, <3>9 DEF CountInv
    <3> QED
      BY <2>1, <3>10, <3>11 DEF EntityInv
  <2>3. CASE ~(backend = "memory" /\ ~disturbed)
    <3>1. CountInv'
      BY <1>1, <2>3 DEF CountInv
    <3>2. backend = "sqlite" \/ (backend = "memory" /\ disturbed)
      BY <2>3 DEF EntityInv, EntityTypeOK
    <3>3. CustomersKept'
      BY <1>1, <2>1, <3>2 DEF CustomersKept
    <3> QED
      BY <2>1, <3>1, <3>3 DEF EntityInv
  <2> QED
    BY <2>2, <2>3
<1>6. CASE UNCHANGED <<rows, calls, onboarded>>
  <2>1. UNCHANGED <<pc, runs>>
    BY <1>1 DEF migration
  <2>2. EntityTypeOK' /\ SchemaInv'
    BY <1>1, <1>2, <1>6, <2>1 DEF EntityInv, EntityTypeOK, SchemaInv
  <2>3. ReferencesHold' /\ KeysFindOne' /\ CustomersKept'
    BY <1>1, <1>6 DEF EntityInv, ReferencesHold, KeysFindOne, CustomersKept
  <2>4. CountInv'
    BY <1>1, <1>4, <1>6 DEF EntityInv, CountInv
  <2> QED
    BY <2>2, <2>3, <2>4 DEF EntityInv
<1> QED
  BY <1>5, <1>6 DEF AddCustomer, id

LEMMA AddCustomerAsStep ==
  ASSUME EntityInv, NEW id \in Ids["customer"], AddCustomerAs(id)
  PROVE  EntityInv'
<1>1. id \in Nat \ {0}
  BY RepositoriesAssumption DEF Table
<1>2. UNCHANGED <<backend, schema, count, migration>> /\ disturbed' = TRUE /\ Ready("customer") /\ Acknowledge(id)
  BY DEF AddCustomerAs
<1>3. /\ EntityTypeOK' /\ SchemaInv' /\ ReferencesHold' /\ KeysFindOne'
      /\ backend = "sqlite" => CustomersKept'
  BY <1>1, <1>2, AcknowledgeStep DEF EntityInv, EntityTypeOK
<1>4. CountInv' /\ (backend = "memory" => CustomersKept')
  BY <1>2 DEF CountInv, CustomersKept
<1> QED
  BY <1>3, <1>4 DEF EntityInv, EntityTypeOK

(***************************************************************************)
(* The migrations leave the rows alone                                     *)
(***************************************************************************)

LEMMA MigratorStep ==
  ASSUME EntityInv, MigrationInv, NEW m \in Migrator,
         \/ StartMigrations(m) \/ CreateTable(m) \/ InsertVersion(m)
         \/ CommitVersion(m) \/ MigrationsReturn(m) \/ Crash(m)
  PROVE  EntityInv'
<1>1. UNCHANGED <<backend, rows, callers>>
  BY DEF StartMigrations, CreateTable, InsertVersion, CommitVersion, MigrationsReturn, Crash, data
<1>2. backend = "sqlite"
  <2>1. CASE StartMigrations(m)
    BY <2>1 DEF StartMigrations
  <2>2. CASE ~StartMigrations(m)
    <3>1. pc[m] # "idle"
      BY <2>2 DEF CreateTable, Upgrading, InsertVersion, CommitVersion, MigrationsReturn, Crash
    <3> QED
      BY <3>1 DEF EntityInv, EntityTypeOK, SchemaInv
  <2> QED
    BY <2>1, <2>2
<1>3. runs' \in 0..MaxRuns
  <2>1. CASE StartMigrations(m)
    BY <2>1, RepositoriesAssumption DEF StartMigrations, EntityInv, EntityTypeOK
  <2>2. CASE ~StartMigrations(m)
    BY <2>2 DEF CreateTable, InsertVersion, CommitVersion, MigrationsReturn, Crash, EntityInv, EntityTypeOK
  <2> QED
    BY <2>1, <2>2
<1>4. \A t \in AllTables : schema'[t] = schema[t] \/ (backend = "sqlite" /\ schema[t] = "none")
  <2>1. CASE CreateTable(m)
    <3> DEFINE s == Upgrades[At(m)][statement[m]]
    <3>1. schema' = [schema EXCEPT ![s] = IF schema[s] = "none" THEN "migration" ELSE schema[s]]
      BY <2>1 DEF CreateTable
    <3> HIDE DEF s
    <3>2. CASE schema[s] = "none"
      BY <1>2, <3>1, <3>2 DEF MigrationInv, MigrationTypeOK
    <3>3. CASE schema[s] # "none"
      BY <3>1, <3>3 DEF MigrationInv, MigrationTypeOK
    <3> QED
      BY <3>2, <3>3
  <2>2. CASE ~CreateTable(m)
    BY <2>2 DEF StartMigrations, InsertVersion, CommitVersion, MigrationsReturn, Crash, data
  <2> QED
    BY <2>1, <2>2
<1> QED
  BY <1>1, <1>2, <1>3, <1>4, SchemaChange

LEMMA OpenKeeps ==
  ASSUME EntityInv, MigrationInv, NEW t \in Table, Open(t)
  PROVE  EntityInv'
<1>1. UNCHANGED <<backend, rows, callers, pc, runs>> /\ backend = "sqlite"
  BY DEF Open, migration
<1>2. \A s \in AllTables : schema'[s] = schema[s] \/ (backend = "sqlite" /\ schema[s] = "none")
  BY <1>1 DEF Open, MigrationInv, MigrationTypeOK
<1> QED
  BY <1>1, <1>2, SchemaChange DEF EntityInv, EntityTypeOK

LEMMA StutterKeeps ==
  ASSUME EntityInv, UNCHANGED vars
  PROVE  EntityInv'
<1>1. UNCHANGED <<backend, rows, callers, schema, pc, runs>>
  BY DEF vars, callers
<1> QED
  BY <1>1, SchemaChange DEF EntityInv, EntityTypeOK, SchemaInv

LEMMA EntityInit ==
  ASSUME Init
  PROVE  EntityInv
<1>1. PICK used \in {{}, {"customer", "invoice"}} :
        /\ schema = [t \in AllTables |-> IF backend = "sqlite" /\ t \in used THEN "repository" ELSE "none"]
        /\ rows = [t \in Table |-> IF t \in used THEN {First(t)} ELSE {}]
        /\ onboarded = {First(t) : t \in used \cap {"customer"}}
  BY DEF Init
<1>2. First("customer") \in CustomerRecord /\ First("customer").customer_id = 1
  BY ColumnsAre DEF First, CustomerRecord
<1>3. First("invoice") \in Entity["invoice"]
  <2>1. First("invoice") = [col \in {"invoice_id"} |-> 1]
    BY ColumnsAre DEF First
  <2>2. TypeOf["invoice_id"] = "invoice" /\ "invoice" \in Table \ {"customer"}
    BY DEF TypeOf, Table
  <2> QED
    BY <2>1, <2>2, ColumnsAre, RepositoriesAssumption DEF Entity
<1>4. \A t \in Table : rows[t] = {} \/ rows[t] = {First(t)}
  BY <1>1
<1>5. \A t \in Table \ {"customer"} : rows[t] \subseteq Entity[t]
  BY <1>1, <1>3, <1>4
<1>6. Table \subseteq AllTables /\ "customer" \in Table
  BY DEF AllTables, Table
<1>7. IsFiniteSet(rows["customer"]) /\ \A x \in rows["customer"] : x = First("customer") /\ Cardinality(rows["customer"]) = 1
  <2>1. CASE rows["customer"] = {}
    BY <2>1, FS_EmptySet
  <2>2. CASE rows["customer"] = {First("customer")}
    <3>1. IsFiniteSet({First("customer")}) /\ Cardinality({First("customer")}) = 1
      BY FS_Singleton
    <3> QED
      BY <2>2, <3>1
  <2> QED
    BY <1>4, <1>6, <2>1, <2>2
<1>8. onboarded \subseteq rows["customer"] /\ rows["customer"] \subseteq CustomerRecord
  BY <1>1, <1>2, <1>6
<1>9. EntityTypeOK
  <2>1. DOMAIN rows = Table
    BY <1>1
  <2>2. onboarded \subseteq CustomerRecord
    BY <1>8
  <2>3. calls \in 0..MaxCalls /\ runs \in 0..MaxRuns
    BY RepositoriesAssumption DEF Init
  <2>4. count \in [Caller -> Nat \cup {NoCount}] /\ disturbed \in BOOLEAN /\ backend \in {"memory", "sqlite"}
    BY DEF Init
  <2> QED
    BY <1>5, <1>7, <1>8, <2>1, <2>2, <2>3, <2>4 DEF EntityTypeOK
<1>10. SchemaInv
  BY <1>1, <1>6 DEF Init, SchemaInv
<1>11. CountInv
  <2>1. \A c \in Caller : count[c] = NoCount
    BY DEF Init
  <2>2. \A x \in rows["customer"] : x.customer_id <= Cardinality(rows["customer"])
    BY <1>2, <1>7
  <2> QED
    BY <2>1, <2>2 DEF CountInv
<1>12. ReferencesHold
  BY <1>1, <1>6 DEF ReferencesHold
<1>13. KeysFindOne
  BY <1>4 DEF KeysFindOne
<1>14. CustomersKept
  BY <1>8 DEF CustomersKept
<1> QED
  BY <1>9, <1>10, <1>11, <1>12, <1>13, <1>14 DEF EntityInv

LEMMA EntitiesStep ==
  ASSUME EntityInv, MigrationInv, [Next]_vars
  PROVE  EntityInv'
<1>1. MigrationTypeOK
  BY DEF MigrationInv
<1>2. CASE UNCHANGED vars
  BY <1>2, StutterKeeps
<1>3. ASSUME NEW t \in Table, Open(t)
      PROVE  EntityInv'
  BY <1>3, OpenKeeps
<1>4. ASSUME NEW t \in Table, t # "customer", NEW row \in Entity[t], Add(t, row) \/ Change(t, row)
      PROVE  EntityInv'
  BY <1>4, AddStep, ChangeStep
<1>5. ASSUME NEW t \in Table, NEW key \in Ids[TypeOf[KeyField[t]]], Delete(t, key)
      PROVE  EntityInv'
  BY <1>1, <1>5, DeleteStep
<1>6. ASSUME NEW c \in Caller, CountCustomers(c) \/ AddCustomer(c)
      PROVE  EntityInv'
  BY <1>1, <1>6, CountStep, AddCustomerStep
<1>7. ASSUME NEW id \in Ids["customer"], AddCustomerAs(id)
      PROVE  EntityInv'
  BY <1>7, AddCustomerAsStep
<1>8. ASSUME NEW m \in Migrator,
             \/ StartMigrations(m) \/ CreateTable(m) \/ InsertVersion(m)
             \/ CommitVersion(m) \/ MigrationsReturn(m) \/ Crash(m)
      PROVE  EntityInv'
  BY <1>8, MigratorStep
<1> QED
  BY <1>2, <1>3, <1>4, <1>5, <1>6, <1>7, <1>8 DEF Next

THEOREM EntitiesInv == Spec => []EntityInv
<1>1. Init => EntityInv
  BY EntityInit
<1>2. EntityInv /\ MigrationInv /\ [Next]_vars => EntityInv'
  BY EntitiesStep
<1> QED
  BY <1>1, <1>2, MigrationsInv, PTL DEF Spec

(***************************************************************************)
(* What the repositories promise                                           *)
(***************************************************************************)

\* Type correctness of repositories and migrations.
THEOREM TypeCorrect == Spec => []TypeOK
<1>1. EntityInv /\ MigrationInv => TypeOK
  BY VersionsAre DEF EntityInv, EntityTypeOK, MigrationInv, MigrationTypeOK, TypeOK
<1> QED
  BY <1>1, EntitiesInv, MigrationsInv, PTL

\* What a migrated table refers to is there, whatever is added, changed and deleted, and
\* whether repositories or migrations made the other tables.
THEOREM ReferencesAlwaysHold == Spec => []ReferencesHold
<1>1. EntityInv => ReferencesHold
  BY DEF EntityInv
<1> QED
  BY <1>1, EntitiesInv, PTL

\* get and update find one entity by its key, in memory and in a database, except in a
\* payment table that a migration made.
THEOREM KeysAlwaysFindOne == Spec => []KeysFindOne
<1>1. EntityInv => KeysFindOne
  BY DEF EntityInv
<1> QED
  BY <1>1, EntitiesInv, PTL

\* Onboarding never overwrites a customer in a database, nor in memory as long as
\* callers onboard one at a time, delete none and choose no ids.
THEOREM OnboardedCustomersKept == Spec => []CustomersKept
<1>1. EntityInv => CustomersKept
  BY DEF EntityInv
<1> QED
  BY <1>1, EntitiesInv, PTL

=============================================================================
