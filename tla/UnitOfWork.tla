----------------------------- MODULE UnitOfWork -----------------------------
(***************************************************************************)
(* dinarledger.storage.unit_of_work: one thread groups operations on       *)
(* repositories of different kinds into a unit of work.  SQLite            *)
(* repositories begin and commit real transactions, one database           *)
(* connection each; memory and JSON repositories are copied on entry and   *)
(* given the copy back on rollback.  Other threads use the same            *)
(* repositories meanwhile, and the process may crash.                      *)
(*                                                                         *)
(* A repository holds a set of items.  JSON repositories save each change  *)
(* (auto_save), and their file is replaced atomically: see JsonStore.      *)
(***************************************************************************)
EXTENDS Integers, Sequences, FiniteSets

CONSTANTS
  Memory, Json, Sqlite,  \* the repositories of each kind
  Order,                 \* the repositories of the unit of work, as it was given them
  Db,                    \* the database file of each SQLite repository
  Item,                  \* entities
  NoWriter,              \* no connection holds a database's write lock
  MaxUses,               \* bound: with-statements on one unit of work
  MaxOthers,             \* bound: repositories other threads change during one of them
  MaxFaults              \* bound: crashes and failing calls

Plain == Memory \cup Json
Repo == Plain \cup Sqlite
Contents == SUBSET Item
Databases == {Db[r] : r \in Sqlite}

\* How many of the first n repositories are copied: snapshots come in their order.
Copied(n) == Cardinality({i \in 1..n : Order[i] \in Plain})

ASSUME UnitOfWorkAssumption ==
  /\ Memory \cap Json = {} /\ Plain \cap Sqlite = {}
  /\ Order \in Seq(Repo)
  /\ \A i, j \in DOMAIN Order : Order[i] = Order[j] => i = j
  /\ DOMAIN Db = Sqlite
  /\ NoWriter \notin Repo
  /\ MaxUses \in Nat /\ MaxOthers \in Nat /\ MaxFaults \in Nat

VARIABLES
  store,      \* what the thread sees in each repository
  disk,       \* what a restarted process finds in each repository
  open,       \* SQLite repositories with an explicit transaction
  writer,     \* the repository whose connection holds a database's write lock
  snapshots,  \* _snapshots: a unit that is used again only appends to it
  aliased,    \* repositories whose store is the snapshot itself
  committed,  \* _committed
  rolledBack, \* _rolled_back
  pc,         \* "out" of the with-statement, "begin", "in" its block, "commit", "rollback"
  next,       \* position in Order of the repository that is next
  leaving,    \* whether __exit__ runs; otherwise the block called commit or rollback
  raised,     \* whether an exception left the block
  uses,       \* with-statements on this unit so far
  faults,     \* crashes and failing calls so far
  before,     \* history: the contents each repository had when the unit began, {} for one
              \* that others have changed
  others,     \* history: repositories other threads have changed since
  after,      \* history: the contents each repository had when its block was left
  notes       \* history of this use: "again" (not the first one of its unit, or begun when
              \* something was left of an earlier one), "called" (the block called commit or rollback
              \* itself), "failed" (a call failed, or the process crashed)

data == <<store, disk, open, writer, aliased>>
unit == <<snapshots, committed, rolledBack>>
control == <<pc, next, leaving, raised, uses>>
history == <<before, others, after, notes>>
vars == <<store, disk, open, writer, snapshots, aliased, committed, rolledBack,
          pc, next, leaving, raised, uses, faults, before, others, after, notes>>

NoLocks == [d \in Databases |-> NoWriter]

Init ==
  /\ store \in [Repo -> Contents]
  /\ disk = [r \in Repo |-> IF r \in Memory THEN {} ELSE store[r]]
  /\ open = {}
  /\ writer = NoLocks
  /\ snapshots = <<>>
  /\ aliased = {}
  /\ committed = FALSE /\ rolledBack = FALSE
  /\ pc = "out" /\ next = 1 /\ leaving = FALSE /\ raised = FALSE
  /\ uses = 0 /\ faults = 0
  /\ before = store
  /\ others = {}
  /\ after = store
  /\ notes = {}

Note(what) == notes' = notes \cup {what}

Fault == faults < MaxFaults /\ faults' = faults + 1 /\ Note("failed")

\* The write lock of r's database is free, or held by r's own connection.
MayWrite(r) == writer[Db[r]] \in {NoWriter, r}

StillLocked(r) == writer

Unlocked(r) == [writer EXCEPT ![Db[r]] = IF @ = r THEN NoWriter ELSE @]

GotoBefore(where) == pc' = where /\ next' = 0

Goto(where) == pc' = where /\ next' = 1

At(where) == pc = where /\ next <= Len(Order)

(***************************************************************************)
(* Entering                                                                *)
(***************************************************************************)

\* A new UnitOfWork, which shares no snapshot with any repository.
NewUnit ==
  /\ pc = "out"
  /\ uses > 0
  /\ snapshots' = <<>>
  /\ aliased' = {}
  /\ committed' = FALSE /\ rolledBack' = FALSE
  /\ uses' = 0
  /\ UNCHANGED <<store, disk, open, writer, pc, next, leaving, raised, faults, history>>

\* No earlier unit left a transaction open, and no failed save a file behind.
Sound == open = {} /\ \A r \in Json : disk[r] = store[r]

Enter ==
  /\ pc = "out"
  /\ uses < MaxUses
  /\ uses' = uses + 1
  /\ Goto("begin")
  /\ leaving' = FALSE /\ raised' = FALSE
  /\ before' = store
  /\ others' = {}
  /\ notes' = IF uses = 0 /\ Sound THEN {} ELSE {"again"}
  /\ after' = store
  /\ UNCHANGED <<data, unit, faults>>

\* An exception leaves __enter__: the block is not run, nor __exit__.
EnterFails ==
  /\ Goto("out")
  /\ Note("failed")
  /\ UNCHANGED <<data, unit, leaving, raised, uses, before, others, after>>

\* BEGIN, which a connection inside a transaction refuses.
BeginSqlite(r) ==
  /\ At("begin") /\ Order[next] = r /\ r \in Sqlite
  /\ IF r \in open
     THEN EnterFails
     ELSE /\ open' = open \cup {r}
          /\ next' = next + 1
          /\ UNCHANGED <<store, disk, writer, aliased, unit, pc, leaving, raised, uses, history>>
  /\ UNCHANGED faults

\* The store is copied; what others did to it up to now is part of the copy.
BeginPlain(r) ==
  /\ At("begin") /\ Order[next] = r /\ r \in Plain
  /\ snapshots' = Append(snapshots, store[r])
  /\ before' = [before EXCEPT ![r] = store[r]]
  /\ others' = others \ {r}
  /\ next' = next + 1
  /\ UNCHANGED <<data, committed, rolledBack, pc, leaving, raised, uses, faults, after, notes>>

\* Copying a store that another thread changes, or loading a file, may raise.
BeginFails ==
  /\ At("begin") /\ Order[next] \in Plain
  /\ Fault
  /\ EnterFails

Begun ==
  /\ pc = "begin" /\ next > Len(Order)
  /\ Goto("in")
  /\ UNCHANGED <<data, unit, leaving, raised, uses, faults, history>>

(***************************************************************************)
(* The block, and other threads                                            *)
(***************************************************************************)

SavedAtOnce(r, contents) == IF r \in Memory THEN disk ELSE [disk EXCEPT ![r] = contents]

\* What a change in the block saves.
Saved(r, contents) == IF r \in open THEN disk ELSE SavedAtOnce(r, contents)

\* add, update or delete in the block.  A memory or JSON repository changes at once; a
\* SQLite one keeps the change in its transaction, or commits it if it has none.
Change(r, contents) ==
  /\ pc = "in"
  /\ contents # store[r]
  /\ r \in Sqlite => MayWrite(r)
  /\ store' = [store EXCEPT ![r] = contents]
  /\ disk' = Saved(r, contents)
  /\ writer' = IF r \in open THEN [writer EXCEPT ![Db[r]] = r] ELSE writer
  /\ UNCHANGED <<open, aliased, unit, control, faults, history>>

\* A JSON file that cannot be written: the change stays in memory.
SaveFails(r, contents) ==
  /\ pc = "in"
  /\ r \in Json
  /\ contents # store[r]
  /\ Fault
  /\ store' = [store EXCEPT ![r] = contents]
  /\ UNCHANGED <<disk, open, writer, aliased, unit, control, before, others, after>>

\* Another thread changes a repository: of a SQLite one through a connection of its
\* own, which waits for the write lock and commits at once.
OtherChange(r, contents) ==
  /\ contents # store[r]
  /\ Cardinality(others \cup {r}) <= MaxOthers
  /\ r \in Sqlite => writer[Db[r]] = NoWriter
  /\ store' = [store EXCEPT ![r] = contents]
  /\ disk' = SavedAtOnce(r, contents)
  /\ others' = others \cup {r}
  /\ before' = [before EXCEPT ![r] = {}]
  /\ UNCHANGED <<open, writer, aliased, unit, control, faults, after, notes>>

(***************************************************************************)
(* Committing and rolling back                                             *)
(***************************************************************************)

\* The block calls commit or rollback itself.
CallInBlock(method) ==
  /\ pc = "in"
  /\ Goto(method)
  /\ Note("called")
  /\ UNCHANGED <<data, unit, leaving, raised, uses, faults, before, others, after>>

\* __exit__ after the block's last line: commit, unless the unit is over already.
ExitNormally ==
  /\ pc = "in"
  /\ leaving' = TRUE
  /\ Goto(IF committed \/ rolledBack THEN "out" ELSE "commit")
  /\ after' = store
  /\ UNCHANGED <<data, unit, raised, uses, faults, before, others, notes>>

\* __exit__ with an exception of the block, or of a call made in it.
ExitWithException ==
  /\ pc = "in"
  /\ leaving' = TRUE
  /\ raised' = TRUE
  /\ after' = store
  /\ Goto("rollback")
  /\ UNCHANGED <<data, unit, uses, faults, before, others, notes>>

CommittedFirst(r) == IF next = 1 THEN [disk EXCEPT ![r] = store[r]] ELSE disk

\* What the commit of r's connection makes durable.
CommittedOf(r) == [disk EXCEPT ![r] = store[r]]

CommitOne(r) ==
  /\ At("commit") /\ Order[next] = r
  /\ IF r \in Sqlite
     THEN /\ disk' = CommittedOf(r)
          /\ open' = open \ {r}
          /\ writer' = Unlocked(r)
     ELSE UNCHANGED <<disk, open, writer>>
  /\ next' = next + 1
  /\ UNCHANGED <<store, aliased, unit, pc, leaving, raised, uses, faults, history>>

\* A commit that raises leaves its transaction open; __exit__ does not roll back.
CommitFails ==
  /\ At("commit") /\ Order[next] \in open
  /\ Fault
  /\ Goto(IF leaving THEN "out" ELSE "in")
  /\ UNCHANGED <<data, unit, leaving, raised, uses, before, others, after>>

Committed ==
  /\ pc = "commit" /\ next > Len(Order)
  /\ committed' = TRUE
  /\ Goto(IF leaving THEN "out" ELSE "in")
  /\ UNCHANGED <<data, snapshots, rolledBack, leaving, raised, uses, faults, history>>

RollbackSqlite(r) ==
  /\ At("rollback") /\ Order[next] = r /\ r \in Sqlite
  /\ store' = [store EXCEPT ![r] = disk[r]]
  /\ open' = open \ {r}
  /\ writer' = Unlocked(r)
  /\ next' = next + 1
  /\ UNCHANGED <<disk, aliased, unit, pc, leaving, raised, uses, faults, history>>

\* The first snapshot taken of r, the next repository to roll back; it is r's store itself
\* once it was restored.
Snapshot(r) == IF r \in aliased THEN store[r] ELSE snapshots[Copied(next)]

NotPersisted(r, contents) == disk

\* What restoring a store writes to its file.
Persisted(r, contents) == IF r \in Json THEN [disk EXCEPT ![r] = contents] ELSE disk

RestorePlain(r) ==
  /\ At("rollback") /\ Order[next] = r /\ r \in Plain
  /\ store' = [store EXCEPT ![r] = Snapshot(r)]
  /\ aliased' = aliased \cup {r}
  /\ disk' = Persisted(r, Snapshot(r))
  /\ next' = next + 1
  /\ UNCHANGED <<open, writer, unit, pc, leaving, raised, uses, faults, history>>

\* The restored store cannot be saved: the repositories after it are not rolled back.
RestoreFails(r) ==
  /\ At("rollback") /\ Order[next] = r /\ r \in Json
  /\ Fault
  /\ store' = [store EXCEPT ![r] = Snapshot(r)]
  /\ aliased' = aliased \cup {r}
  /\ Goto(IF leaving THEN "out" ELSE "in")
  /\ UNCHANGED <<disk, open, writer, unit, leaving, raised, uses, before, others, after>>

RolledBack ==
  /\ pc = "rollback" /\ next > Len(Order)
  /\ rolledBack' = TRUE
  /\ Goto(IF leaving THEN "out" ELSE "in")
  /\ UNCHANGED <<data, snapshots, committed, leaving, raised, uses, faults, history>>

\* The process dies; one with new repositories and no unit of work takes its place.
Crash ==
  /\ Fault
  /\ store' = disk
  /\ open' = {}
  /\ writer' = NoLocks
  /\ snapshots' = <<>> /\ aliased' = {}
  /\ committed' = FALSE /\ rolledBack' = FALSE
  /\ Goto("out")
  /\ leaving' = FALSE /\ raised' = FALSE
  /\ uses' = 0
  /\ UNCHANGED <<disk, before, others, after>>

Next ==
  \/ NewUnit
  \/ Enter
  \/ \E r \in Repo :
       \/ BeginSqlite(r)
       \/ BeginPlain(r)
       \/ \E contents \in Contents :
            Change(r, contents) \/ SaveFails(r, contents) \/ OtherChange(r, contents)
       \/ CommitOne(r)
       \/ RollbackSqlite(r)
       \/ RestorePlain(r)
       \/ RestoreFails(r)
  \/ BeginFails
  \/ Begun
  \/ \E method \in {"commit", "rollback"} : CallInBlock(method)
  \/ ExitNormally
  \/ ExitWithException
  \/ CommitFails
  \/ Committed
  \/ RolledBack
  \/ Crash

Spec == Init /\ [][Next]_vars

(***************************************************************************)
(* Properties                                                              *)
(***************************************************************************)

TypeOK ==
  /\ store \in [Repo -> Contents] /\ disk \in [Repo -> Contents]
  /\ open \subseteq Sqlite
  /\ writer \in [Databases -> Sqlite \cup {NoWriter}]
  /\ snapshots \in Seq(Contents)
  /\ aliased \subseteq Plain
  /\ committed \in BOOLEAN /\ rolledBack \in BOOLEAN
  /\ pc \in {"out", "begin", "in", "commit", "rollback"}
  /\ next \in 1..(Len(Order) + 1)
  /\ leaving \in BOOLEAN /\ raised \in BOOLEAN
  /\ uses \in 0..MaxUses /\ faults \in 0..MaxFaults
  /\ before \in [Repo -> Contents]
  /\ others \subseteq Repo
  /\ after \in [Repo -> Contents]
  /\ notes \subseteq {"again", "called", "failed"}

\* A with-statement has ended that was the first one of its unit.
Over == pc = "out" /\ uses = 1 /\ notes \cap {"again", "failed"} = {}

Ours == {r \in Repo : r \notin others /\ \E i \in DOMAIN Order : Order[i] = r}

\* After an exception every repository of the unit, whatever its kind, is what it was
\* when the unit began, in memory and for a process that starts now.
ExceptionRestores ==
  Over /\ raised /\ "called" \notin notes =>
    \A r \in Ours : store[r] = before[r] /\ (r \in Memory \/ disk[r] = before[r])

\* Without one, what the block left in each repository is what a process that starts
\* now finds there, whether or not the block committed or rolled back itself.
CommitIsDurable ==
  Over /\ ~raised => \A r \in Ours \ Memory : disk[r] = after[r]

\* A unit used once, also one the block committed or rolled back itself, leaves no
\* transaction open and no database locked against other threads.
NothingLeftOpen == Over => open = {} /\ writer = NoLocks

\* The repositories of the databases, up to one place in the order of the unit, show what
\* the block left and are out of their transaction; from there on they show what they had
\* when the unit began.
CommittedUpTo(n) ==
  \A i \in DOMAIN Order :
    Order[i] \in Ours \cap Sqlite =>
      IF i <= n THEN disk[Order[i]] = after[Order[i]] /\ Order[i] \notin open
                ELSE disk[Order[i]] = before[Order[i]]

\* Whatever fails in the first use of a unit, a commit half-way or the process itself,
\* other connections and a process that starts later see nothing of it but whole
\* repositories in the order they were given: a change is seen only when its own
\* repository was committed, all at once, and never before one that stands earlier.
TornInOrder ==
  notes \cap {"again", "called"} = {} => \E n \in 0..Len(Order) : CommittedUpTo(n)

=============================================================================
