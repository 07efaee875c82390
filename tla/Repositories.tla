---------------------------- MODULE Repositories ----------------------------
(***************************************************************************)
(* The entities of dinarledger in memory repositories, or in one SQLite    *)
(* database.  A table of the database is created by whoever comes first:   *)
(* a SqliteRepository that is opened, or run_migrations of a process that  *)
(* upgrades it meanwhile; both say IF NOT EXISTS, and their columns agree  *)
(* while their keys and references do not.                                 *)
(*                                                                         *)
(* Of an entity the model keeps the ids by which it is found and refers    *)
(* to others, and of a customer its name.  Callers make one repository     *)
(* call per step; onboard_customer makes two.                              *)
(***************************************************************************)
EXTENDS Integers, Sequences, FiniteSetsExt

CONSTANTS
  Caller,      \* threads that onboard customers
  Migrator,    \* processes that run the migrations
  Nobody,      \* no process holds the write lock
  NoCount,     \* a caller outside onboard_customer
  Ids,         \* bound: the ids of each kind of entity; a customer's are 1..n
  MaxCalls,    \* bound: repository calls that change something
  MaxRuns      \* bound: calls of run_migrations

Table == {"customer", "subscription", "invoice", "payment"}

TypeOf == [customer_id |-> "customer", sub_id |-> "subscription", invoice_id |-> "invoice",
           payment_id |-> "payment"]

ASSUME RepositoriesAssumption ==
  /\ Nobody \notin Migrator
  /\ NoCount \notin Nat
  /\ \A t \in Table : Ids[t] \subseteq Nat \ {0}
  /\ 1 \in Ids["invoice"]
  /\ MaxCalls \in Nat /\ MaxRuns \in Nat

(***************************************************************************)
(* Schemas                                                                 *)
(***************************************************************************)

\* The files v001, v002 and v003 in order, and the tables each creates in order.
Version == <<"v001_initial", "v002_add_fx_rates", "v003_add_payments">>

Upgrades == <<<<"customer", "plan", "subscription">>, <<"fxrate">>, <<"payment", "reconciliation">>>>

CreatedBy(v) == {Upgrades[v][k] : k \in DOMAIN Upgrades[v]}

AllTables == Table \cup UNION {CreatedBy(v) : v \in DOMAIN Version}

\* The fields of an entity the model keeps.
Columns(t) ==
  CASE t = "customer" -> {"customer_id", "name"}
    [] t = "subscription" -> {"sub_id", "customer_id"}
    [] t = "invoice" -> {"invoice_id"}
    [] t = "payment" -> {"payment_id", "invoice_id"}

\* What callers add and change, other than customers.
Entity ==
  [t \in Table \ {"customer"} |->
     {row \in [Columns(t) -> UNION {Ids[s] : s \in Table}] :
        \A col \in Columns(t) : row[col] \in Ids[TypeOf[col]]}]

CustomerRecord == [customer_id : Nat \ {0}, name : Nat]

\* The names a repository tries as the key of its entities, in this order.
IdField == <<"id", "plan_id", "sub_id", "invoice_id", "payment_id", "customer_id", "code">>

KeyFrom(names, t) == names[Min({i \in DOMAIN names : names[i] \in Columns(t)})]

\* _entity_id of the memory repository, _extract_id_field of the SQLite one.
KeyField == [t \in Table |-> KeyFrom(IdField, t)]

PaymentIdFirst == <<"id", "plan_id", "sub_id", "payment_id", "invoice_id", "customer_id", "code">>

PrimaryKeyByOwnId(t, how) == KeyFrom(PaymentIdFirst, t)

\* The primary key of a table, by who created it.
PrimaryKey(t, how) ==
  IF how = "migration" /\ t = "payment" THEN "payment_id" ELSE KeyField[t]

\* The references the migrated tables declare: the column and the table it refers to.
\* Only a connection with foreign_keys=ON, which a repository's is, enforces them.
Parent == [subscription |-> "customer", payment |-> "invoice", reconciliation |-> "payment"]

Reference == [subscription |-> "customer_id", payment |-> "invoice_id", reconciliation |-> "payment_id"]

First(t) == [col \in Columns(t) |-> IF col = "name" THEN 0 ELSE 1]

VARIABLES
  backend,    \* the kind of the repositories: "memory" or "sqlite"
  schema,     \* who created each table: "none", "repository" or "migration"
  rows,       \* what each table, or each memory repository, holds
  count,      \* what onboard_customer of a caller counted
  calls,      \* repository calls so far
  applied,    \* versions recorded in _migrations
  pc,         \* a process: "idle", "upgrade" or "commit"
  known,      \* versions it found applied when it started
  newly,      \* newly_applied
  statement,  \* the statement of that migration it is at
  writer,     \* the process whose open transaction holds the write lock
  runs,       \* calls of run_migrations so far
  onboarded,  \* history: customers acknowledged to their caller and not deleted since
  disturbed,  \* history: a customer was deleted, given an id by hand, or two were onboarded at once
  reported    \* history: for each version, how often a run came to report it as newly applied

data == <<backend, schema, rows>>
callers == <<count, calls, onboarded, disturbed>>
migration == <<applied, pc, known, newly, statement, writer, runs, reported>>
vars == <<backend, schema, rows, count, calls, applied, pc, known, newly, statement,
          writer, runs, onboarded, disturbed, reported>>

\* The repositories have been used before, or not: some hold their first entity.
Init ==
  /\ backend \in {"memory", "sqlite"}
  /\ \E used \in {{}, {"customer", "invoice"}} :
       /\ schema = [t \in AllTables |-> IF backend = "sqlite" /\ t \in used THEN "repository" ELSE "none"]
       /\ rows = [t \in Table |-> IF t \in used THEN {First(t)} ELSE {}]
       /\ onboarded = {First(t) : t \in used \cap {"customer"}}
  /\ count = [c \in Caller |-> NoCount]
  /\ calls = 0
  /\ applied = {}
  /\ pc = [m \in Migrator |-> "idle"]
  /\ known = [m \in Migrator |-> {}]
  /\ newly = [m \in Migrator |-> {}]
  /\ statement = [m \in Migrator |-> 1]
  /\ writer = Nobody
  /\ runs = 0
  /\ disturbed = FALSE
  /\ reported = [v \in DOMAIN Version |-> 0]

(***************************************************************************)
(* What SQLite refuses                                                     *)
(***************************************************************************)

Exists(t) == schema[t] # "none"

\* Tables that were created with a reference to t.
Children(t) == {s \in DOMAIN Parent : Parent[s] = t /\ schema[s] = "migration"}

NoReferences(t, row) == TRUE

\* The row a new one refers to is there, under a key of its table.
RefersToOne(t, row) ==
  schema[t] = "migration" /\ t \in DOMAIN Parent =>
    /\ Exists(Parent[t])
    /\ \E up \in rows[Parent[t]] : up[Reference[t]] = row[Reference[t]]

\* No two rows of a table have its primary key in common.
Distinct(t, set) == \A x, y \in set : x[PrimaryKey(t, schema[t])] = y[PrimaryKey(t, schema[t])] => x = y

\* A reference into t names a column that is t's primary key; otherwise every statement
\* that touches that column raises "foreign key mismatch".
ReferencesMatch(t) == \A s \in Children(t) : PrimaryKey(t, schema[t]) = Reference[s]

\* Rows of a table with a key that no row of another table refers to.
Unreferenced(t, gone) ==
  \A s \in Children(t) \cap Table : \A down \in rows[s], x \in gone : down[Reference[s]] # x[Reference[s]]

(***************************************************************************)
(* Repositories                                                            *)
(***************************************************************************)

\* SqliteRepository.__init__ creates the table unless it exists.
Open(t) ==
  /\ backend = "sqlite" /\ writer = Nobody
  /\ schema[t] = "none"
  /\ schema' = [schema EXCEPT ![t] = "repository"]
  /\ UNCHANGED <<backend, rows, callers, migration>>

Ready(t) == backend = "memory" \/ (Exists(t) /\ writer = Nobody)

Found(t, key) == {x \in rows[t] : x[KeyField[t]] = key}

\* What a table holds after add, and whether add returns: a memory repository replaces
\* an entity with the same key, a database refuses it.
Added(t, row) ==
  IF backend = "memory" THEN (rows[t] \ Found(t, row[KeyField[t]])) \cup {row} ELSE rows[t] \cup {row}

AddReturns(t, row) ==
  backend = "sqlite" => /\ row \notin rows[t]
                        /\ Distinct(t, Added(t, row))
                        /\ RefersToOne(t, row)

Count(n) == calls < MaxCalls /\ calls' = calls + n

\* A call that raises changes nothing and is no step.  Customers are added by
\* onboard_customer.
Add(t, row) ==
  /\ Ready(t)
  /\ AddReturns(t, row)
  /\ Count(1)
  /\ rows' = [rows EXCEPT ![t] = Added(t, row)]
  /\ UNCHANGED <<backend, schema, count, onboarded, disturbed, migration>>

\* The rows with the entity's key all become the entity.
Updated(t, row) == (rows[t] \ Found(t, row[KeyField[t]])) \cup {row}

\* UPDATE sets every column but the key, for all rows it finds: two rows that become one
\* violate the primary key, as does a row that becomes one of the others.
UpdateReturns(t, row) ==
  /\ Found(t, row[KeyField[t]]) # {}
  /\ backend = "sqlite" =>
       /\ Cardinality(Found(t, row[KeyField[t]])) = 1
       /\ Distinct(t, Updated(t, row))
       /\ RefersToOne(t, row)
       /\ ReferencesMatch(t)

\* update, of an entity that names something else than before.
Change(t, row) ==
  /\ Ready(t)
  /\ UpdateReturns(t, row)
  /\ Updated(t, row) # rows[t]
  /\ Count(1)
  /\ rows' = [rows EXCEPT ![t] = Updated(t, row)]
  /\ UNCHANGED <<backend, schema, count, onboarded, disturbed, migration>>

\* delete: every row with the key goes, unless others refer to one of them.
Delete(t, key) ==
  /\ Ready(t)
  /\ Found(t, key) # {}
  /\ backend = "sqlite" => ReferencesMatch(t) /\ Unreferenced(t, Found(t, key))
  /\ Count(1)
  /\ rows' = [rows EXCEPT ![t] = @ \ Found(t, key)]
  /\ onboarded' = IF t = "customer" THEN onboarded \ Found(t, key) ELSE onboarded
  /\ disturbed' = (disturbed \/ t = "customer")
  /\ UNCHANGED <<backend, schema, count, migration>>

(***************************************************************************)
(* onboard_customer: the id is one more than the number of customers,      *)
(* unless the caller gives one                                             *)
(***************************************************************************)

Customer(id) == [customer_id |-> id, name |-> calls + 1]

\* The id is computed from get_all.
CountCustomers(c) ==
  /\ Ready("customer")
  /\ count[c] = NoCount
  /\ calls < MaxCalls
  /\ count' = [count EXCEPT ![c] = Cardinality(rows["customer"])]
  /\ disturbed' = (disturbed \/ \E d \in Caller : count[d] # NoCount)
  /\ UNCHANGED <<data, calls, onboarded, migration>>

LastId(n) == n

\* The id after n customers.
NextId(n) == n + 1

Acknowledge(id) ==
  /\ AddReturns("customer", Customer(id))
  /\ Count(1)
  /\ rows' = [rows EXCEPT !["customer"] = Added("customer", Customer(id))]
  /\ onboarded' = onboarded \cup {Customer(id)}

\* The customer is added; the repository may refuse it.
AddCustomer(c) ==
  /\ Ready("customer")
  /\ count[c] # NoCount
  /\ count' = [count EXCEPT ![c] = NoCount]
  /\ \/ Acknowledge(NextId(count[c]))
     \/ /\ ~AddReturns("customer", Customer(NextId(count[c])))
        /\ UNCHANGED <<rows, calls, onboarded>>
  /\ UNCHANGED <<backend, schema, disturbed, migration>>

\* A customer with an id of the caller's choice.
AddCustomerAs(id) ==
  /\ Ready("customer")
  /\ Acknowledge(id)
  /\ disturbed' = TRUE
  /\ UNCHANGED <<backend, schema, count, migration>>

(***************************************************************************)
(* run_migrations: each statement that creates a table is committed by     *)
(* itself; the record of a version is a transaction                        *)
(***************************************************************************)

Unsorted == <<2, 1, 3>>

\* The migration files in the order in which they are run.
Sorted == <<1, 2, 3>>

Skips(m) == known[m] \cup newly[m]

Done(m) == \A k \in DOMAIN Sorted : Sorted[k] \in Skips(m)

\* The migration a process is at: the first that was not applied when it started.
At(m) == Sorted[Min({k \in DOMAIN Sorted : Sorted[k] \notin Skips(m)})]

\* What a process knew is gone with its call.
Forget(m) ==
  /\ pc' = [pc EXCEPT ![m] = "idle"]
  /\ known' = [known EXCEPT ![m] = {}]
  /\ newly' = [newly EXCEPT ![m] = {}]
  /\ statement' = [statement EXCEPT ![m] = 1]

StartMigrations(m) ==
  /\ backend = "sqlite" /\ pc[m] = "idle"
  /\ runs < MaxRuns
  /\ runs' = runs + 1
  /\ known' = [known EXCEPT ![m] = applied]
  /\ pc' = [pc EXCEPT ![m] = "upgrade"]
  /\ UNCHANGED <<data, callers, applied, newly, statement, writer, reported>>

Upgrading(m) == pc[m] = "upgrade" /\ ~Done(m)

\* One CREATE TABLE IF NOT EXISTS of the migration's upgrade.
CreateTable(m) ==
  /\ Upgrading(m)
  /\ statement[m] <= Len(Upgrades[At(m)])
  /\ LET t == Upgrades[At(m)][statement[m]] IN
     /\ Exists(t) \/ writer = Nobody
     /\ schema' = [schema EXCEPT ![t] = IF @ = "none" THEN "migration" ELSE @]
  /\ statement' = [statement EXCEPT ![m] = @ + 1]
  /\ UNCHANGED <<backend, rows, callers, applied, pc, known, newly, writer, runs, reported>>

RecordReplaces(v) == TRUE

\* The version is no primary key of _migrations yet.
RecordIsNew(v) == v \notin applied

\* INSERT INTO _migrations opens a transaction; a version that another process has
\* recorded meanwhile raises, and run_migrations with it.
InsertVersion(m) ==
  /\ Upgrading(m)
  /\ statement[m] > Len(Upgrades[At(m)])
  /\ writer = Nobody
  /\ IF RecordIsNew(At(m))
     THEN /\ writer' = m
          /\ pc' = [pc EXCEPT ![m] = "commit"]
          /\ UNCHANGED <<known, newly, statement>>
     ELSE Forget(m) /\ UNCHANGED writer
  /\ UNCHANGED <<data, callers, applied, runs, reported>>

CommitVersion(m) ==
  /\ pc[m] = "commit"
  /\ applied' = applied \cup {At(m)}
  /\ writer' = Nobody
  /\ pc' = [pc EXCEPT ![m] = "upgrade"]
  /\ newly' = [newly EXCEPT ![m] = @ \cup {At(m)}]
  /\ statement' = [statement EXCEPT ![m] = 1]
  /\ UNCHANGED <<data, callers, known, runs, reported>>

\* run_migrations returns the versions it has applied.
MigrationsReturn(m) ==
  /\ pc[m] = "upgrade" /\ Done(m)
  /\ reported' = [v \in DOMAIN Version |-> reported[v] + (IF v \in newly[m] THEN 1 ELSE 0)]
  /\ Forget(m)
  /\ UNCHANGED <<data, callers, applied, writer, runs>>

\* The process dies: what it has not committed is undone.
Crash(m) ==
  /\ pc[m] # "idle"
  /\ Forget(m)
  /\ writer' = IF writer = m THEN Nobody ELSE writer
  /\ UNCHANGED <<data, callers, applied, runs, reported>>

Next ==
  \/ \E t \in Table :
       \/ Open(t)
       \/ t # "customer" /\ \E row \in Entity[t] : Add(t, row) \/ Change(t, row)
       \/ \E key \in Ids[TypeOf[KeyField[t]]] : Delete(t, key)
  \/ \E c \in Caller : CountCustomers(c) \/ AddCustomer(c)
  \/ \E id \in Ids["customer"] : AddCustomerAs(id)
  \/ \E m \in Migrator :
       \/ StartMigrations(m) \/ CreateTable(m) \/ InsertVersion(m)
       \/ CommitVersion(m) \/ MigrationsReturn(m) \/ Crash(m)

Spec == Init /\ [][Next]_vars

(***************************************************************************)
(* Properties                                                              *)
(***************************************************************************)

TypeOK ==
  /\ backend \in {"memory", "sqlite"}
  /\ schema \in [AllTables -> {"none", "repository", "migration"}]
  /\ DOMAIN rows = Table
  /\ rows["customer"] \subseteq CustomerRecord
  /\ \A t \in Table \ {"customer"} : rows[t] \subseteq Entity[t]
  /\ count \in [Caller -> Nat \cup {NoCount}]
  /\ calls \in 0..MaxCalls /\ runs \in 0..MaxRuns
  /\ applied \subseteq DOMAIN Version
  /\ pc \in [Migrator -> {"idle", "upgrade", "commit"}]
  /\ known \in [Migrator -> SUBSET DOMAIN Version]
  /\ newly \in [Migrator -> SUBSET DOMAIN Version] /\ statement \in [Migrator -> 1..4]
  /\ writer \in Migrator \cup {Nobody}
  /\ disturbed \in BOOLEAN /\ onboarded \subseteq CustomerRecord
  /\ reported \in [DOMAIN Version -> Nat]

\* However a database came to its tables, and whatever was added, changed and deleted
\* through its repositories: what a migrated table refers to is there.
ReferencesHold ==
  \A t \in {s \in Table \cap DOMAIN Parent : schema[s] = "migration"} : \A row \in rows[t] :
    \E up \in rows[Parent[t]] : up[Reference[t]] = row[Reference[t]]

\* A key finds one entity, as get and update suppose, in memory and in a database,
\* except in a payment table that a migration made: its repository finds payments by
\* their invoice, of which it then may hold many.
KeysFindOne ==
  \A t \in Table : (t = "payment" /\ schema[t] = "migration") \/
    \A x, y \in rows[t] : x[KeyField[t]] = y[KeyField[t]] => x = y

\* A customer whose onboarding returned is stored until it is deleted.  In memory this
\* needs ids that are counted while nobody else counts, in a repository nothing was
\* deleted from, and no ids given by hand.
CustomersKept ==
  \/ backend = "memory" /\ disturbed
  \/ onboarded \subseteq rows["customer"]

\* Processes that migrate one database at the same time, or again after a crash, never
\* both report a version as newly applied.
ReportedOnce == \A v \in DOMAIN Version : reported[v] <= 1

\* The database goes up version by version, and has the tables of the version it
\* says it has, whoever created them: the specification in Versions.
Database == INSTANCE Versions WITH
  Last <- Len(Version),
  Tables <- AllTables,
  TablesOf <- [v \in DOMAIN Version |-> CreatedBy(v)],
  level <- Cardinality(applied),
  tables <- {t \in AllTables : Exists(t)}

UpgradesInOrder == Database!Spec

=============================================================================
