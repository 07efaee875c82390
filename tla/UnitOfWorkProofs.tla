------------------------ MODULE UnitOfWorkProofs ------------------------
(***************************************************************************)
(* Theorems about UnitOfWork, for any repositories of each kind, any order *)
(* of them in a unit, databases they share, items, uses, other threads and *)
(* faults.                                                                 *)
(***************************************************************************)
EXTENDS UnitOfWork, FiniteSetTheorems, TLAPS

\* The first use of a unit, in which nothing failed; and one the block did not end itself.
Clean == uses = 1 /\ notes \cap {"again", "failed"} = {}

Untouched == Clean /\ "called" \notin notes

\* A database is locked only by a connection inside a transaction, and what nothing locks
\* is stored.
UncommittedIsPrivate ==
  \A r \in Sqlite :
    /\ writer[Db[r]] = r => r \in open
    /\ writer[Db[r]] # r => disk[r] = store[r]

LockInv ==
  /\ UncommittedIsPrivate
  /\ \A d \in Databases : writer[d] # NoWriter => writer[d] \in open /\ Db[writer[d]] = d

UnitInv ==
  /\ pc = "begin" => Len(snapshots) >= Copied(next - 1)
  /\ pc \in {"in", "commit", "rollback"} => Len(snapshots) >= Copied(Len(Order))
  /\ uses = 0 => pc = "out" /\ ~committed /\ ~rolledBack /\ snapshots = <<>> /\ aliased = {}

\* What is still to be ended.
OpenInv ==
  /\ pc \in {"begin", "in"} => \A r \in open : \E i \in 1..Len(Order) : Order[i] = r
  /\ pc \in {"commit", "rollback"} => \A r \in open : \E i \in next..Len(Order) : Order[i] = r
  /\ pc = "out" \/ committed \/ rolledBack => open = {}
  /\ pc = "begin" => ~committed /\ ~rolledBack

WayOutInv ==
  /\ pc # "out" => raised = (pc = "rollback" /\ leaving)
  /\ pc \in {"begin", "in"} => ~leaving
  /\ \A r \in Json : disk[r] = store[r]
  /\ (pc = "commit" /\ leaving) \/ (pc = "out" /\ ~raised) => \A r \in Ours : store[r] = after[r]

IsBefore(r) == store[r] = before[r] /\ (r \in Memory \/ disk[r] = before[r])

\* The repository at position i can be given back what it had before.
Recoverable(i) ==
  LET r == Order[i] IN
  IF r \in Plain
  THEN r \notin aliased /\ (r \in Ours => snapshots[Copied(i)] = before[r])
  ELSE r \in Ours => disk[r] = before[r]

RestoreInv ==
  /\ pc = "begin" => /\ aliased = {} /\ Len(snapshots) = Copied(next - 1)
                     /\ \A r \in Ours : IsBefore(r)
                     /\ \A i \in 1..next - 1 : Recoverable(i) /\ (Order[i] \in Sqlite => Order[i] \in open)
  /\ pc = "in" => \A i \in 1..Len(Order) : Recoverable(i) /\ (Order[i] \in Sqlite => Order[i] \in open)
  /\ pc \in {"commit", "rollback"} => leaving
  /\ pc = "rollback" => /\ \A i \in 1..next - 1 : Order[i] \in Ours => IsBefore(Order[i])
                        /\ \A i \in next..Len(Order) : Recoverable(i)
  /\ pc = "out" /\ raised => \A r \in Ours : IsBefore(r)

UnitOfWorkInv ==
  /\ TypeOK
  /\ LockInv
  /\ UnitInv
  /\ Clean => OpenInv /\ WayOutInv
  /\ Untouched => RestoreInv

(***************************************************************************)
(* The order of the repositories and the index of a snapshot               *)
(***************************************************************************)

LEMMA Orders ==
  /\ Len(Order) \in Nat /\ DOMAIN Order = 1..Len(Order)
  /\ \A i \in 1..Len(Order) : Order[i] \in Repo
  /\ \A i, j \in 1..Len(Order) : Order[i] = Order[j] => i = j
  /\ \A r \in Repo : r \in Sqlite <=> r \notin Plain
  /\ \A r \in Json : r \in Plain /\ r \notin Memory
  /\ \A r \in Sqlite : Db[r] \in Databases /\ r # NoWriter /\ r \in Repo
  /\ MaxUses \in Nat /\ MaxOthers \in Nat /\ MaxFaults \in Nat
BY UnitOfWorkAssumption DEF Repo, Plain, Databases

LEMMA EmptyList == <<>> \in Seq(Contents) /\ Len(<<>>) = 0
OBVIOUS

LEMMA LocksKept ==
  ASSUME LockInv, UNCHANGED <<store, disk, open, writer>>
  PROVE  LockInv'
BY DEF LockInv, UncommittedIsPrivate

LEMMA CopiedSets ==
  ASSUME NEW n \in 0..Len(Order)
  PROVE  IsFiniteSet({i \in 1..n : Order[i] \in Plain}) /\ Copied(n) \in Nat
<1>1. n \in Int
  BY Orders
<1>2. IsFiniteSet(1..n)
  BY <1>1, FS_Interval
<1>3. IsFiniteSet({i \in 1..n : Order[i] \in Plain})
  BY <1>2, FS_Subset
<1> QED
  BY <1>3, FS_CardinalityType DEF Copied

LEMMA CopiedStep ==
  ASSUME NEW n \in 1..Len(Order)
  PROVE  Copied(n) = IF Order[n] \in Plain THEN Copied(n - 1) + 1 ELSE Copied(n - 1)
<1> DEFINE T == {i \in 1..n - 1 : Order[i] \in Plain}
<1>1. n \in Int /\ n - 1 \in 0..Len(Order)
  BY Orders
<1>2. CASE Order[n] \in Plain
  <2>1. {i \in 1..n : Order[i] \in Plain} = T \cup {n} /\ n \notin T
    BY <1>1, <1>2
  <2>2. IsFiniteSet(T)
    BY <1>1, CopiedSets
  <2>3. Cardinality(T \cup {n}) = Cardinality(T) + 1
    BY <2>1, <2>2, FS_AddElement
  <2> QED
    BY <1>2, <2>1, <2>3 DEF Copied
<1>3. CASE Order[n] \notin Plain
  <2>1. {i \in 1..n : Order[i] \in Plain} = T
    BY <1>1, <1>3
  <2> QED
    BY <1>3, <2>1 DEF Copied
<1> QED
  BY <1>2, <1>3

LEMMA CopiedGrows ==
  ASSUME NEW m \in 0..Len(Order), NEW n \in 0..Len(Order), m <= n
  PROVE  Copied(m) <= Copied(n)
<1>1. {i \in 1..m : Order[i] \in Plain} \subseteq {i \in 1..n : Order[i] \in Plain}
  BY Orders
<1>2. IsFiniteSet({i \in 1..n : Order[i] \in Plain})
  BY CopiedSets
<1> QED
  BY <1>1, <1>2, FS_Subset DEF Copied

LEMMA CopiedNone == Copied(0) = 0
<1>1. {i \in 1..0 : Order[i] \in Plain} = {}
  OBVIOUS
<1> QED
  BY <1>1, FS_EmptySet DEF Copied

\* The snapshot of a repository was taken once all of them were.
LEMMA SnapshotTaken ==
  ASSUME NEW n \in 1..Len(Order), Order[n] \in Plain, TypeOK, Len(snapshots) >= Copied(Len(Order))
  PROVE  Copied(n) \in 1..Len(snapshots) /\ snapshots[Copied(n)] \in Contents
<1>1. n - 1 \in 0..Len(Order) /\ n \in 0..Len(Order) /\ Len(Order) \in 0..Len(Order) /\ n <= Len(Order)
  BY Orders
<1>2. Copied(n) = Copied(n - 1) + 1 /\ Copied(n - 1) \in Nat /\ Copied(n) <= Copied(Len(Order))
  BY <1>1, CopiedStep, CopiedGrows, CopiedSets
<1>3. snapshots \in Seq(Contents)
  BY DEF TypeOK
<1>4. Copied(Len(Order)) \in Nat /\ Len(snapshots) \in Nat
  <2>1. Copied(Len(Order)) \in Nat
    BY <1>1, CopiedSets
  <2>2. Len(snapshots) \in Nat
    BY <1>3
  <2> QED
    BY <2>1, <2>2
<1>5. Copied(n) \in 1..Len(snapshots)
  BY <1>2, <1>4
<1> QED
  BY <1>3, <1>5

LEMMA SnapshotType ==
  ASSUME TypeOK, UnitInv, pc = "rollback", next \in 1..Len(Order), Order[next] \in Plain
  PROVE  Snapshot(Order[next]) \in Contents
<1>1. Len(snapshots) >= Copied(Len(Order))
  BY DEF UnitInv
<1>2. snapshots[Copied(next)] \in Contents /\ store[Order[next]] \in Contents
  BY <1>1, SnapshotTaken DEF TypeOK, Repo
<1> QED
  BY <1>2 DEF Snapshot

\* What a step that ends the transaction of r does to the locks.
LEMMA LocksGivenBack ==
  ASSUME TypeOK, LockInv, NEW r \in Sqlite, open' = open \ {r}, writer' = Unlocked(r),
         disk' \in [Repo -> Contents], store' \in [Repo -> Contents], disk'[r] = store'[r],
         \A q \in Repo \ {r} : disk'[q] = disk[q] /\ store'[q] = store[q]
  PROVE  LockInv'
<1>1. \A d \in Databases : writer'[d] = IF d = Db[r] /\ writer[d] = r THEN NoWriter ELSE writer[d]
  BY DEF Unlocked, TypeOK
<1>2. \A q \in Sqlite : Db[q] \in Databases /\ q # NoWriter /\ q \in Repo
  BY Orders
<1>3. \A d \in Databases : writer'[d] # NoWriter => writer'[d] \in open' /\ Db[writer'[d]] = d
  BY <1>1 DEF LockInv
<1> QED
  BY <1>1, <1>2, <1>3 DEF LockInv, UncommittedIsPrivate

LEMMA NewUnitKeeps ==
  ASSUME UnitOfWorkInv, NewUnit
  PROVE  UnitOfWorkInv'
<1>1. TypeOK'
  <2>1. 0 \in 0..MaxUses /\ <<>> \in Seq(Contents)
    BY Orders, EmptyList
  <2> QED
    BY <2>1 DEF UnitOfWorkInv, TypeOK, NewUnit, history
<1>2. LockInv'
  BY LocksKept DEF UnitOfWorkInv, NewUnit
<1>3. UnitInv'
  BY Orders DEF UnitOfWorkInv, TypeOK, UnitInv, NewUnit, history
<1>4. Clean' => OpenInv'
  BY Orders DEF UnitOfWorkInv, TypeOK, LockInv, UnitInv, Clean, OpenInv, NewUnit, history
<1>5. Clean' => WayOutInv'
  BY Orders DEF UnitOfWorkInv, TypeOK, LockInv, UncommittedIsPrivate, UnitInv, Clean, OpenInv,
         WayOutInv, Ours, NewUnit, history
<1>6. Untouched' => RestoreInv'
  BY Orders DEF UnitOfWorkInv, TypeOK, LockInv, UncommittedIsPrivate, UnitInv, Clean, Untouched,
         OpenInv, WayOutInv, RestoreInv, Recoverable, IsBefore, Ours, NewUnit, history
<1> QED
  BY <1>1, <1>2, <1>3, <1>4, <1>5, <1>6 DEF UnitOfWorkInv

LEMMA EnterKeeps ==
  ASSUME UnitOfWorkInv, Enter
  PROVE  UnitOfWorkInv'
<1>1. TypeOK'
  <2>1. uses' \in 0..MaxUses /\ next' \in 1..(Len(Order) + 1) /\ notes' \subseteq {"again", "called", "failed"}
    BY Orders DEF UnitOfWorkInv, TypeOK, Enter, Goto
  <2> QED
    BY <2>1 DEF UnitOfWorkInv, TypeOK, Enter, Goto, data, unit
<1>2. LockInv'
  BY LocksKept DEF UnitOfWorkInv, Enter, data
<1>3. UnitInv'
  <2>1. pc' = "begin" /\ next' - 1 = 0 /\ uses' # 0 /\ UNCHANGED snapshots
    BY DEF UnitOfWorkInv, TypeOK, Enter, Goto, unit
  <2>2. Len(snapshots) \in Nat
    BY DEF UnitOfWorkInv, TypeOK
  <2> QED
    BY <2>1, <2>2, CopiedNone DEF UnitInv, Copied
<1>4. Clean' => OpenInv'
  BY Orders DEF UnitOfWorkInv, TypeOK, LockInv, UnitInv, Clean, OpenInv, Enter, Goto, Sound, data,
         unit
<1>5. Clean' => WayOutInv'
  BY Orders DEF UnitOfWorkInv, TypeOK, LockInv, UncommittedIsPrivate, UnitInv, Clean, OpenInv,
         WayOutInv, Ours, Enter, Goto, Sound, data, unit
<1>6. Untouched' => RestoreInv'
  <2> SUFFICES ASSUME Untouched'
               PROVE  RestoreInv'
    OBVIOUS
  <2>1. /\ uses = 0 /\ Sound /\ pc' = "begin" /\ next' = 1 /\ before' = store
        /\ UNCHANGED <<store, disk, open, aliased, snapshots>>
    BY DEF Untouched, Clean, Enter, Goto, data, unit, UnitOfWorkInv, TypeOK
  <2>2. aliased' = {} /\ Len(snapshots') = Copied(next' - 1)
    BY <2>1, CopiedNone, EmptyList DEF UnitOfWorkInv, UnitInv
  <2>3. \A r \in Repo : store[r] = before'[r] /\ (r \in Memory \/ disk[r] = before'[r])
    BY <2>1, Orders DEF Sound, UnitOfWorkInv, LockInv, UncommittedIsPrivate, Plain
  <2>4. \A r \in Ours' : IsBefore(r)'
    BY <2>1, <2>3 DEF Ours, IsBefore
  <2> QED
    BY <2>1, <2>2, <2>4 DEF RestoreInv
<1> QED
  BY <1>1, <1>2, <1>3, <1>4, <1>5, <1>6 DEF UnitOfWorkInv

LEMMA BeginSqliteKeeps ==
  ASSUME UnitOfWorkInv, NEW r \in Repo, BeginSqlite(r)
  PROVE  UnitOfWorkInv'
<1>1. TypeOK'
  <2>1. next \in 1..Len(Order) /\ next + 1 \in 1..(Len(Order) + 1) /\ 1 \in 1..(Len(Order) + 1)
    BY Orders DEF UnitOfWorkInv, TypeOK, BeginSqlite, At
  <2> QED
    BY <2>1 DEF UnitOfWorkInv, TypeOK, BeginSqlite, EnterFails, Goto, Note, data, unit, history
<1>2. LockInv'
  BY Orders DEF UnitOfWorkInv, TypeOK, LockInv, UncommittedIsPrivate, BeginSqlite, At, EnterFails,
         Goto, Note, data, unit, history
<1>3. UnitInv'
  <2>1. next \in 1..Len(Order) /\ (next + 1) - 1 = next /\ pc = "begin" /\ Order[next] \notin Plain
    BY Orders DEF UnitOfWorkInv, TypeOK, BeginSqlite, At
  <2>2. Copied(next) = Copied(next - 1)
    BY <2>1, CopiedStep
  <2>3. pc' = "out" \/ (pc' = "begin" /\ next' = next + 1)
    BY <2>1 DEF BeginSqlite, EnterFails, Goto
  <2>4. UNCHANGED <<snapshots, uses, committed, rolledBack, aliased>>
    BY DEF BeginSqlite, EnterFails, data, unit
  <2>5. uses # 0
    BY <2>1 DEF UnitOfWorkInv, UnitInv
  <2>6. Len(snapshots) >= Copied(next)
    BY <2>1, <2>2 DEF UnitOfWorkInv, UnitInv
  <2>7. pc' = "begin" => Copied(next' - 1) = Copied(next)
    BY <2>1, <2>3
  <2> QED
    BY <2>3, <2>4, <2>5, <2>6, <2>7 DEF UnitInv, Copied
<1>4. Clean' => OpenInv'
  <2> SUFFICES ASSUME Clean'
               PROVE  OpenInv'
    OBVIOUS
  <2>1. /\ r \notin open /\ open' = open \cup {r} /\ pc = "begin" /\ pc' = "begin"
        /\ UNCHANGED <<committed, rolledBack, uses, notes>>
    BY DEF Clean, BeginSqlite, EnterFails, Note, At, unit, history
  <2>2. next \in 1..Len(Order) /\ Order[next] = r
    BY Orders DEF UnitOfWorkInv, TypeOK, BeginSqlite, At
  <2> QED
    BY <2>1, <2>2 DEF UnitOfWorkInv, Clean, OpenInv
<1>5. Clean' => WayOutInv'
  BY Orders DEF UnitOfWorkInv, TypeOK, LockInv, UncommittedIsPrivate, UnitInv, Clean, OpenInv,
         WayOutInv, Ours, BeginSqlite, At, EnterFails, Goto, Note, data, unit, history
<1>6. Untouched' => RestoreInv'
  <2> SUFFICES ASSUME Untouched'
               PROVE  RestoreInv'
    OBVIOUS
  <2>1. /\ open' = open \cup {r} /\ pc = "begin" /\ pc' = "begin" /\ next' = next + 1
        /\ UNCHANGED <<store, disk, aliased, snapshots, before, others, uses, notes>>
    BY DEF Untouched, Clean, BeginSqlite, EnterFails, Note, At, unit, history
  <2>2. next \in 1..Len(Order) /\ Order[next] = r /\ r \in Sqlite /\ r \notin Plain
    BY Orders DEF UnitOfWorkInv, TypeOK, BeginSqlite, At
  <2>3. RestoreInv
    BY <2>1 DEF Untouched, Clean, UnitOfWorkInv
  <2>4. Len(snapshots') = Copied(next' - 1)
    BY <2>1, <2>2, <2>3, CopiedStep DEF RestoreInv
  <2>5. \A q \in Ours' : q \in Ours /\ IsBefore(q)'
    BY <2>1, <2>3 DEF RestoreInv, Ours, IsBefore
  <2>6. \A i \in 1..next' - 1 : i \in 1..next - 1 \/ i = next
    BY <2>1, <2>2
  <2>7. \A i \in 1..next' - 1 : Recoverable(i)' /\ (Order[i] \in Sqlite => Order[i] \in open')
    BY <2>1, <2>2, <2>3, <2>5, <2>6 DEF RestoreInv, Recoverable, IsBefore, Ours, Plain, Copied
  <2> QED
    BY <2>1, <2>3, <2>4, <2>5, <2>7 DEF RestoreInv
<1> QED
  BY <1>1, <1>2, <1>3, <1>4, <1>5, <1>6 DEF UnitOfWorkInv

LEMMA BeginPlainKeeps ==
  ASSUME UnitOfWorkInv, NEW r \in Repo, BeginPlain(r)
  PROVE  UnitOfWorkInv'
<1>1. TypeOK'
  BY Orders DEF UnitOfWorkInv, UnitInv, TypeOK, BeginPlain, At, data
<1>2. LockInv'
  BY LocksKept DEF UnitOfWorkInv, BeginPlain, data
<1>3. UnitInv'
  <2>1. next \in 1..Len(Order) /\ next' - 1 = next /\ pc = "begin" /\ pc' = "begin" /\ Order[next] \in Plain
    BY Orders DEF UnitOfWorkInv, TypeOK, BeginPlain, At
  <2>2. Copied(next) = Copied(next - 1) + 1 /\ Copied(next - 1) \in Nat
    <3>1. next - 1 \in 0..Len(Order)
      BY <2>1, Orders
    <3> QED
      BY <2>1, <3>1, CopiedStep, CopiedSets
  <2>3. Len(snapshots') = Len(snapshots) + 1 /\ Len(snapshots) \in Nat
    BY DEF BeginPlain, UnitOfWorkInv, TypeOK
  <2>4. Len(snapshots) >= Copied(next - 1) /\ uses' # 0
    BY <2>1 DEF UnitOfWorkInv, UnitInv, BeginPlain
  <2>5. Len(snapshots') >= Copied(next' - 1)
    BY <2>1, <2>2, <2>3, <2>4
  <2> QED
    BY <2>1, <2>4, <2>5 DEF UnitInv, Copied
<1>4. Clean' => OpenInv'
  BY Orders DEF UnitOfWorkInv, TypeOK, LockInv, UnitInv, Clean, OpenInv, BeginPlain, At, data
<1>5. Clean' => WayOutInv'
  BY Orders DEF UnitOfWorkInv, TypeOK, LockInv, UncommittedIsPrivate, UnitInv, Clean, OpenInv,
         WayOutInv, Ours, BeginPlain, At, data
<1>6. Untouched' => RestoreInv'
  <2> SUFFICES ASSUME Untouched'
               PROVE  RestoreInv'
    OBVIOUS
  <2>1. /\ pc = "begin" /\ pc' = "begin" /\ next' = next + 1 /\ snapshots' = Append(snapshots, store[r])
        /\ before' = [before EXCEPT ![r] = store[r]] /\ others' = others \ {r}
        /\ UNCHANGED <<store, disk, open, aliased, uses, notes>>
    BY DEF BeginPlain, At, data
  <2>2. next \in 1..Len(Order) /\ Order[next] = r /\ r \in Plain /\ r \notin Sqlite /\ r \in Repo
    BY Orders DEF UnitOfWorkInv, TypeOK, BeginPlain, At
  <2>3. RestoreInv /\ WayOutInv
    BY <2>1 DEF Untouched, Clean, UnitOfWorkInv
  <2>4. /\ snapshots \in Seq(Contents) /\ Len(snapshots) = Copied(next - 1)
        /\ Copied(next) = Copied(next - 1) + 1 /\ Copied(next - 1) \in Nat /\ store[r] \in Contents
        /\ before \in [Repo -> Contents]
    BY <2>1, <2>2, <2>3, CopiedStep, CopiedSets DEF RestoreInv, UnitOfWorkInv, TypeOK
  <2>5. /\ Len(snapshots') = Copied(next) /\ snapshots'[Copied(next)] = store[r]
        /\ \A k \in 1..Copied(next - 1) : snapshots'[k] = snapshots[k]
    BY <2>1, <2>4
  <2>6. \A q \in Ours' : IsBefore(q)'
    <3>1. before'[r] = store[r] /\ \A q \in Repo : q # r => before'[q] = before[q]
      BY <2>1, <2>4
    <3>2. r \in Memory \/ disk[r] = store[r]
      BY <2>2, <2>3 DEF WayOutInv, Plain
    <3> QED
      BY <2>1, <2>3, <3>1, <3>2 DEF RestoreInv, Ours, IsBefore
  <2>7. \A i \in 1..next' - 1 : i \in 1..next - 1 \/ i = next
    BY <2>1, <2>2
  <2>8. ASSUME NEW i \in 1..next - 1
        PROVE  Recoverable(i)' /\ (Order[i] \in Sqlite => Order[i] \in open')
    <3>1. i \in 1..Len(Order) /\ i # next /\ Order[i] # r /\ Order[i] \in Repo
      BY <2>2, Orders
    <3>2. Recoverable(i) /\ (Order[i] \in Sqlite => Order[i] \in open)
      BY <2>1, <2>3 DEF RestoreInv
    <3>3. before'[Order[i]] = before[Order[i]] /\ (Order[i] \in Ours' => Order[i] \in Ours)
      BY <2>1, <2>4, <3>1 DEF Ours
    <3>4. Order[i] \in Plain => Copied(i) \in 1..Copied(next - 1)
      <4>1. i - 1 \in 0..Len(Order) /\ i \in 0..Len(Order) /\ next - 1 \in 0..Len(Order) /\ i <= next - 1
        BY <2>2, Orders
      <4>2. Order[i] \in Plain => Copied(i) = Copied(i - 1) + 1
        BY <3>1, CopiedStep
      <4>3. Copied(i - 1) \in Nat /\ Copied(i) \in Nat /\ Copied(i) <= Copied(next - 1)
        BY <4>1, CopiedSets, CopiedGrows
      <4> QED
        BY <2>4, <4>2, <4>3
    <3> QED
      BY <2>1, <2>5, <3>1, <3>2, <3>3, <3>4 DEF Recoverable, Copied
  <2>9. ASSUME NEW i \in {next}
        PROVE  Recoverable(i)' /\ (Order[i] \in Sqlite => Order[i] \in open')
    <3>1. Recoverable(i)' <=> (r \notin aliased' /\ (r \in Ours' => snapshots'[Copied(next)] = before'[r]))
      BY <2>2 DEF Recoverable, Copied
    <3>2. r \notin aliased' /\ before'[r] = store[r]
      BY <2>1, <2>2, <2>3, <2>4 DEF RestoreInv
    <3> QED
      BY <2>2, <2>5, <3>1, <3>2
  <2>10. /\ Len(snapshots') = Copied(next' - 1) /\ aliased' = {}
         /\ \A i \in 1..next' - 1 : Recoverable(i)' /\ (Order[i] \in Sqlite => Order[i] \in open')
    <3>1. next' - 1 = next
      BY <2>1, <2>2
    <3> QED
      BY <2>1, <2>3, <2>5, <2>7, <2>8, <2>9, <3>1 DEF RestoreInv, Copied
  <2> QED
    BY <2>1, <2>6, <2>10 DEF RestoreInv, Copied
<1> QED
  BY <1>1, <1>2, <1>3, <1>4, <1>5, <1>6 DEF UnitOfWorkInv

LEMMA ChangeKeeps ==
  ASSUME UnitOfWorkInv, NEW r \in Repo, NEW contents \in Contents, Change(r, contents)
  PROVE  UnitOfWorkInv'
<1>1. TypeOK'
  BY Orders DEF UnitOfWorkInv, UnitInv, TypeOK, Change, Saved, SavedAtOnce, MayWrite, unit,
         control, history
<1>2. LockInv'
  <2>1. r \in open => r \in Sqlite /\ writer[Db[r]] \in {NoWriter, r}
    BY DEF UnitOfWorkInv, TypeOK, Change, MayWrite
  <2>2. \A d \in Databases : writer'[d] = IF r \in open /\ d = Db[r] THEN r ELSE writer[d]
    BY <2>1 DEF UnitOfWorkInv, TypeOK, Change
  <2>3. \A q \in Repo : store'[q] = IF q = r THEN contents ELSE store[q]
    BY DEF UnitOfWorkInv, TypeOK, Change
  <2>4. \A q \in Repo : disk'[q] = IF q = r /\ r \notin open /\ r \notin Memory THEN contents ELSE disk[q]
    BY DEF UnitOfWorkInv, TypeOK, Change, Saved, SavedAtOnce
  <2>5. open' = open
    BY DEF Change
  <2>6. \A d \in Databases : writer'[d] # NoWriter => writer'[d] \in open' /\ Db[writer'[d]] = d
    BY <2>1, <2>2, <2>5 DEF UnitOfWorkInv, LockInv
  <2>7. \A q \in Sqlite : writer'[Db[q]] # q => disk'[q] = store'[q]
    BY <2>1, <2>2, <2>3, <2>4, Orders DEF UnitOfWorkInv, LockInv, UncommittedIsPrivate, Plain
  <2> QED
    BY <2>6, <2>7, Orders DEF LockInv, UncommittedIsPrivate
<1>3. UnitInv'
  BY Orders DEF UnitOfWorkInv, TypeOK, UnitInv, Change, Saved, SavedAtOnce, MayWrite, unit,
         control, history
<1>4. Clean' => OpenInv'
  BY Orders DEF UnitOfWorkInv, TypeOK, LockInv, UnitInv, Clean, OpenInv, Change, Saved,
         SavedAtOnce, MayWrite, unit, control, history
<1>5. Clean' => WayOutInv'
  BY Orders DEF UnitOfWorkInv, TypeOK, LockInv, UncommittedIsPrivate, UnitInv, Clean, OpenInv,
         WayOutInv, Ours, Change, Saved, SavedAtOnce, MayWrite, unit, control, history
<1>6. Untouched' => RestoreInv'
  BY Orders DEF UnitOfWorkInv, TypeOK, LockInv, UncommittedIsPrivate, UnitInv, Clean, Untouched,
         OpenInv, WayOutInv, RestoreInv, Recoverable, IsBefore, Ours, Change, Saved, SavedAtOnce,
         MayWrite, unit, control, history
<1> QED
  BY <1>1, <1>2, <1>3, <1>4, <1>5, <1>6 DEF UnitOfWorkInv

LEMMA SaveFailsKeeps ==
  ASSUME UnitOfWorkInv, NEW r \in Repo, NEW contents \in Contents, SaveFails(r, contents)
  PROVE  UnitOfWorkInv'
<1>1. TypeOK'
  BY Orders DEF UnitOfWorkInv, UnitInv, TypeOK, SaveFails, Fault, Note, unit, control
<1>2. LockInv'
  BY Orders DEF UnitOfWorkInv, TypeOK, LockInv, UncommittedIsPrivate, SaveFails, Fault, Note,
         unit, control
<1>3. UnitInv'
  BY Orders DEF UnitOfWorkInv, TypeOK, UnitInv, SaveFails, Fault, Note, unit, control
<1>4. ~Clean'
  BY DEF SaveFails, Fault, Note, Clean
<1> QED
  BY <1>1, <1>2, <1>3, <1>4 DEF UnitOfWorkInv, Untouched

LEMMA OtherChangeKeeps ==
  ASSUME UnitOfWorkInv, NEW r \in Repo, NEW contents \in Contents, OtherChange(r, contents)
  PROVE  UnitOfWorkInv'
<1>1. TypeOK'
  <2>1. {} \in Contents
    BY DEF Contents
  <2>2. before' \in [Repo -> Contents] /\ others' \subseteq Repo
    BY <2>1 DEF UnitOfWorkInv, TypeOK, OtherChange
  <2>3. store' \in [Repo -> Contents] /\ disk' \in [Repo -> Contents]
    BY DEF UnitOfWorkInv, TypeOK, OtherChange, SavedAtOnce
  <2> QED
    BY <2>2, <2>3 DEF UnitOfWorkInv, TypeOK, OtherChange, unit, control
<1>2. LockInv'
  <2>1. \A q \in Repo : store'[q] = IF q = r THEN contents ELSE store[q]
    BY DEF UnitOfWorkInv, TypeOK, OtherChange
  <2>2. \A q \in Repo : disk'[q] = IF q = r /\ r \notin Memory THEN contents ELSE disk[q]
    BY DEF UnitOfWorkInv, TypeOK, OtherChange, SavedAtOnce
  <2>3. UNCHANGED <<open, writer>>
    BY DEF OtherChange
  <2> QED
    BY <2>1, <2>2, <2>3, Orders DEF UnitOfWorkInv, LockInv, UncommittedIsPrivate, Plain
<1>3. UnitInv'
  BY Orders DEF UnitOfWorkInv, TypeOK, UnitInv, OtherChange, SavedAtOnce, unit, control
<1>4. Clean' => OpenInv'
  BY Orders DEF UnitOfWorkInv, TypeOK, LockInv, UnitInv, Clean, OpenInv, OtherChange, SavedAtOnce,
         unit, control
<1>5. Clean' => WayOutInv'
  BY Orders DEF UnitOfWorkInv, TypeOK, LockInv, UncommittedIsPrivate, UnitInv, Clean, OpenInv,
         WayOutInv, Ours, OtherChange, SavedAtOnce, unit, control
<1>6. Untouched' => RestoreInv'
  BY Orders DEF UnitOfWorkInv, TypeOK, LockInv, UncommittedIsPrivate, UnitInv, Clean, Untouched,
         OpenInv, WayOutInv, RestoreInv, Recoverable, IsBefore, Ours, OtherChange, SavedAtOnce,
         unit, control
<1> QED
  BY <1>1, <1>2, <1>3, <1>4, <1>5, <1>6 DEF UnitOfWorkInv

LEMMA CommitOneKeeps ==
  ASSUME UnitOfWorkInv, NEW r \in Repo, CommitOne(r)
  PROVE  UnitOfWorkInv'
<1>1. TypeOK'
  BY Orders DEF UnitOfWorkInv, UnitInv, TypeOK, CommitOne, At, CommittedOf, Unlocked, unit,
         history
<1>2. LockInv'
  <2>1. CASE r \in Sqlite
    <3>1. /\ open' = open \ {r} /\ writer' = Unlocked(r)
          /\ disk' = [disk EXCEPT ![r] = store[r]] /\ store' = store
      BY <2>1 DEF CommitOne, CommittedOf
    <3> QED
      BY <2>1, <3>1, LocksGivenBack DEF UnitOfWorkInv, TypeOK
  <2>2. CASE r \notin Sqlite
    BY <2>2, LocksKept DEF UnitOfWorkInv, CommitOne
  <2> QED
    BY <2>1, <2>2
<1>3. UnitInv'
  BY Orders DEF UnitOfWorkInv, TypeOK, UnitInv, CommitOne, At, CommittedOf, Unlocked, unit,
         history
<1>4. Clean' => OpenInv'
  BY Orders DEF UnitOfWorkInv, TypeOK, LockInv, UnitInv, Clean, OpenInv, CommitOne, At,
         CommittedOf, Unlocked, unit, history
<1>5. Clean' => WayOutInv'
  <2> SUFFICES ASSUME Clean'
               PROVE  WayOutInv'
    OBVIOUS
  <2>1. pc = "commit" /\ UNCHANGED <<store, pc, leaving, raised, after, others, uses, notes>>
    BY DEF CommitOne, At, history
  <2>2. \A q \in Json : disk'[q] = disk[q]
    BY Orders DEF UnitOfWorkInv, TypeOK, CommitOne, CommittedOf, Plain, Repo
  <2> QED
    BY <2>1, <2>2 DEF UnitOfWorkInv, Clean, WayOutInv, Ours
<1>6. Untouched' => RestoreInv'
  BY Orders DEF UnitOfWorkInv, TypeOK, LockInv, UncommittedIsPrivate, UnitInv, Clean, Untouched,
         OpenInv, WayOutInv, RestoreInv, Recoverable, IsBefore, Ours, CommitOne, At, CommittedOf,
         Unlocked, unit, history
<1> QED
  BY <1>1, <1>2, <1>3, <1>4, <1>5, <1>6 DEF UnitOfWorkInv

LEMMA RollbackSqliteKeeps ==
  ASSUME UnitOfWorkInv, NEW r \in Repo, RollbackSqlite(r)
  PROVE  UnitOfWorkInv'
<1>1. TypeOK'
  BY Orders DEF UnitOfWorkInv, UnitInv, TypeOK, RollbackSqlite, At, Unlocked, unit, history
<1>2. LockInv'
  <2>1. /\ r \in Sqlite /\ open' = open \ {r} /\ writer' = Unlocked(r)
        /\ store' = [store EXCEPT ![r] = disk[r]] /\ disk' = disk
    BY DEF RollbackSqlite
  <2> QED
    BY <2>1, LocksGivenBack DEF UnitOfWorkInv, TypeOK
<1>3. UnitInv'
  BY Orders DEF UnitOfWorkInv, TypeOK, UnitInv, RollbackSqlite, At, Unlocked, unit, history
<1>4. Clean' => OpenInv'
  BY Orders DEF UnitOfWorkInv, TypeOK, LockInv, UnitInv, Clean, OpenInv, RollbackSqlite, At,
         Unlocked, unit, history
<1>5. Clean' => WayOutInv'
  BY Orders DEF UnitOfWorkInv, TypeOK, LockInv, UncommittedIsPrivate, UnitInv, Clean, OpenInv,
         WayOutInv, Ours, RollbackSqlite, At, Unlocked, unit, history
<1>6. Untouched' => RestoreInv'
  BY Orders DEF UnitOfWorkInv, TypeOK, LockInv, UncommittedIsPrivate, UnitInv, Clean, Untouched,
         OpenInv, WayOutInv, RestoreInv, Recoverable, IsBefore, Ours, RollbackSqlite, At,
         Unlocked, unit, history
<1> QED
  BY <1>1, <1>2, <1>3, <1>4, <1>5, <1>6 DEF UnitOfWorkInv

LEMMA RestorePlainKeeps ==
  ASSUME UnitOfWorkInv, NEW r \in Repo, RestorePlain(r)
  PROVE  UnitOfWorkInv'
<1>1. next \in 1..Len(Order) /\ Order[next] = r /\ r \in Plain /\ r \notin Sqlite /\ pc = "rollback"
  BY Orders DEF RestorePlain, At, UnitOfWorkInv, TypeOK, Plain
<1>2. Snapshot(r) \in Contents
  BY <1>1, SnapshotType DEF UnitOfWorkInv
<1>3. TypeOK'
  <2>1. next' \in 1..(Len(Order) + 1)
    BY <1>1, Orders DEF RestorePlain
  <2>2. store' \in [Repo -> Contents] /\ disk' \in [Repo -> Contents] /\ aliased' \subseteq Plain
    BY <1>1, <1>2 DEF RestorePlain, Persisted, UnitOfWorkInv, TypeOK
  <2> QED
    BY <2>1, <2>2 DEF RestorePlain, UnitOfWorkInv, TypeOK, unit, history
<1>4. LockInv'
  BY Orders DEF UnitOfWorkInv, TypeOK, LockInv, UncommittedIsPrivate, RestorePlain, At, Persisted,
         unit, history
<1>5. UnitInv'
  BY Orders DEF UnitOfWorkInv, TypeOK, UnitInv, RestorePlain, At, Persisted, unit, history
<1>6. Clean' => OpenInv'
  BY Orders DEF UnitOfWorkInv, TypeOK, LockInv, UnitInv, Clean, OpenInv, RestorePlain, At,
         Persisted, unit, history
<1>7. Clean' => WayOutInv'
  BY Orders DEF UnitOfWorkInv, TypeOK, LockInv, UncommittedIsPrivate, UnitInv, Clean, OpenInv,
         WayOutInv, Ours, RestorePlain, At, Persisted, unit, history
<1>8. Untouched' => RestoreInv'
  <2> SUFFICES ASSUME Untouched'
               PROVE  RestoreInv'
    OBVIOUS
  <2>1. /\ pc' = "rollback" /\ next' = next + 1 /\ aliased' = aliased \cup {r}
        /\ store' = [store EXCEPT ![r] = Snapshot(r)] /\ disk' = Persisted(r, Snapshot(r))
        /\ UNCHANGED <<open, snapshots, leaving, before, others, uses, notes>>
    BY <1>1 DEF RestorePlain, unit, history
  <2>2. RestoreInv
    BY <2>1 DEF Untouched, Clean, UnitOfWorkInv
  <2>3. r \in Ours => Snapshot(r) = before[r]
    BY <1>1, <2>2 DEF RestoreInv, Recoverable, Snapshot
  <2>4. store'[r] = Snapshot(r) /\ (r \in Memory \/ disk'[r] = Snapshot(r))
    BY <1>1, <2>1 DEF Persisted, Plain, Repo, UnitOfWorkInv, TypeOK
  <2>5. \A q \in Repo \ {r} : store'[q] = store[q] /\ disk'[q] = disk[q]
    BY <1>1, <2>1 DEF Persisted, UnitOfWorkInv, TypeOK
  <2>6. ASSUME NEW i \in 1..next' - 1, Order[i] \in Ours'
        PROVE  IsBefore(Order[i])'
    <3>1. CASE i = next
      BY <1>1, <2>1, <2>3, <2>4, <2>6, <3>1 DEF IsBefore, Ours
    <3>2. CASE i \in 1..next - 1
      <4>1. Order[i] \in Repo \ {r} /\ Order[i] \in Ours
        BY <1>1, <2>1, <2>6, <3>2, Orders DEF Ours
      <4> QED
        BY <1>1, <2>1, <2>2, <2>5, <3>2, <4>1 DEF RestoreInv, IsBefore
    <3> QED
      BY <1>1, <2>1, <3>1, <3>2
  <2>7. ASSUME NEW i \in next'..Len(Order)
        PROVE  Recoverable(i)'
    <3>1. i \in next..Len(Order) /\ i \in 1..Len(Order) /\ Order[i] \in Repo \ {r}
      BY <1>1, <2>1, Orders
    <3>2. Recoverable(i)
      BY <1>1, <2>1, <2>2, <3>1 DEF RestoreInv
    <3> QED
      BY <2>1, <2>5, <3>1, <3>2 DEF Recoverable, Ours, Copied
  <2> QED
    BY <1>1, <2>1, <2>2, <2>6, <2>7 DEF RestoreInv
<1> QED
  BY <1>3, <1>4, <1>5, <1>6, <1>7, <1>8 DEF UnitOfWorkInv

LEMMA RestoreFailsKeeps ==
  ASSUME UnitOfWorkInv, NEW r \in Repo, RestoreFails(r)
  PROVE  UnitOfWorkInv'
<1>1. next \in 1..Len(Order) /\ Order[next] = r /\ r \in Plain /\ r \notin Sqlite /\ pc = "rollback"
  BY Orders DEF RestoreFails, At, UnitOfWorkInv, TypeOK, Plain
<1>2. Snapshot(r) \in Contents
  BY <1>1, SnapshotType DEF UnitOfWorkInv
<1>3. TypeOK'
  <2>1. next' \in 1..(Len(Order) + 1) /\ faults' \in 0..MaxFaults
    BY Orders DEF RestoreFails, Goto, Fault, UnitOfWorkInv, TypeOK
  <2>2. store' \in [Repo -> Contents] /\ aliased' \subseteq Plain
    BY <1>1, <1>2 DEF RestoreFails, UnitOfWorkInv, TypeOK
  <2> QED
    BY <2>1, <2>2 DEF RestoreFails, Goto, Fault, Note, UnitOfWorkInv, TypeOK, unit
<1>4. LockInv'
  BY Orders DEF UnitOfWorkInv, TypeOK, LockInv, UncommittedIsPrivate, RestoreFails, At, Fault,
         Note, Goto, unit
<1>5. UnitInv'
  BY Orders DEF UnitOfWorkInv, TypeOK, UnitInv, RestoreFails, At, Fault, Note, Goto, unit
<1>6. ~Clean'
  BY DEF RestoreFails, Fault, Note, Clean
<1> QED
  BY <1>3, <1>4, <1>5, <1>6 DEF UnitOfWorkInv, Untouched

LEMMA BeginFailsKeeps ==
  ASSUME UnitOfWorkInv, BeginFails
  PROVE  UnitOfWorkInv'
<1>1. TypeOK'
  BY Orders DEF UnitOfWorkInv, UnitInv, TypeOK, BeginFails, At, Fault, Note, EnterFails, Goto,
         data, unit
<1>2. LockInv'
  BY LocksKept DEF UnitOfWorkInv, BeginFails, EnterFails, data
<1>3. UnitInv'
  BY Orders DEF UnitOfWorkInv, TypeOK, UnitInv, BeginFails, At, Fault, Note, EnterFails, Goto,
         data, unit
<1>4. ~Clean'
  BY DEF BeginFails, Fault, Note, Clean
<1> QED
  BY <1>1, <1>2, <1>3, <1>4 DEF UnitOfWorkInv, Untouched

LEMMA BegunKeeps ==
  ASSUME UnitOfWorkInv, Begun
  PROVE  UnitOfWorkInv'
<1>1. TypeOK'
  BY Orders DEF UnitOfWorkInv, UnitInv, TypeOK, Begun, Goto, data, unit, history
<1>2. LockInv'
  BY LocksKept DEF UnitOfWorkInv, Begun, data
<1>3. UnitInv'
  <2>1. next - 1 = Len(Order) /\ pc = "begin" /\ pc' = "in" /\ UNCHANGED <<snapshots, uses>>
    BY Orders DEF UnitOfWorkInv, TypeOK, Begun, Goto, unit
  <2> QED
    BY <2>1 DEF UnitOfWorkInv, UnitInv, Copied
<1>4. Clean' => OpenInv'
  BY Orders DEF UnitOfWorkInv, TypeOK, LockInv, UnitInv, Clean, OpenInv, Begun, Goto, data, unit,
         history
<1>5. Clean' => WayOutInv'
  BY Orders DEF UnitOfWorkInv, TypeOK, LockInv, UncommittedIsPrivate, UnitInv, Clean, OpenInv,
         WayOutInv, Ours, Begun, Goto, data, unit, history
<1>6. Untouched' => RestoreInv'
  BY Orders DEF UnitOfWorkInv, TypeOK, LockInv, UncommittedIsPrivate, UnitInv, Clean, Untouched,
         OpenInv, WayOutInv, RestoreInv, Recoverable, IsBefore, Ours, Begun, Goto, data, unit,
         history
<1> QED
  BY <1>1, <1>2, <1>3, <1>4, <1>5, <1>6 DEF UnitOfWorkInv

LEMMA CallInBlockKeeps ==
  ASSUME UnitOfWorkInv, NEW method \in {"commit", "rollback"}, CallInBlock(method)
  PROVE  UnitOfWorkInv'
<1>1. TypeOK'
  BY Orders DEF UnitOfWorkInv, UnitInv, TypeOK, CallInBlock, Goto, Note, data, unit
<1>2. LockInv'
  BY LocksKept DEF UnitOfWorkInv, CallInBlock, data
<1>3. UnitInv'
  BY Orders DEF UnitOfWorkInv, TypeOK, UnitInv, CallInBlock, Goto, Note, data, unit
<1>4. Clean' => OpenInv'
  BY Orders DEF UnitOfWorkInv, TypeOK, LockInv, UnitInv, Clean, OpenInv, CallInBlock, Goto, Note,
         data, unit
<1>5. Clean' => WayOutInv'
  BY Orders DEF UnitOfWorkInv, TypeOK, LockInv, UncommittedIsPrivate, UnitInv, Clean, OpenInv,
         WayOutInv, Ours, CallInBlock, Goto, Note, data, unit
<1>6. Untouched' => RestoreInv'
  BY Orders DEF UnitOfWorkInv, TypeOK, LockInv, UncommittedIsPrivate, UnitInv, Clean, Untouched,
         OpenInv, WayOutInv, RestoreInv, Recoverable, IsBefore, Ours, CallInBlock, Goto, Note,
         data, unit
<1> QED
  BY <1>1, <1>2, <1>3, <1>4, <1>5, <1>6 DEF UnitOfWorkInv

LEMMA ExitNormallyKeeps ==
  ASSUME UnitOfWorkInv, ExitNormally
  PROVE  UnitOfWorkInv'
<1>1. TypeOK'
  BY Orders DEF UnitOfWorkInv, UnitInv, TypeOK, ExitNormally, Goto, data, unit
<1>2. LockInv'
  BY LocksKept DEF UnitOfWorkInv, ExitNormally, data
<1>3. UnitInv'
  BY Orders DEF UnitOfWorkInv, TypeOK, UnitInv, ExitNormally, Goto, data, unit
<1>4. Clean' => OpenInv'
  BY Orders DEF UnitOfWorkInv, TypeOK, LockInv, UnitInv, Clean, OpenInv, ExitNormally, Goto, data,
         unit
<1>5. Clean' => WayOutInv'
  BY Orders DEF UnitOfWorkInv, TypeOK, LockInv, UncommittedIsPrivate, UnitInv, Clean, OpenInv,
         WayOutInv, Ours, ExitNormally, Goto, data, unit
<1>6. Untouched' => RestoreInv'
  BY Orders DEF UnitOfWorkInv, TypeOK, LockInv, UncommittedIsPrivate, UnitInv, Clean, Untouched,
         OpenInv, WayOutInv, RestoreInv, Recoverable, IsBefore, Ours, ExitNormally, Goto, data,
         unit
<1> QED
  BY <1>1, <1>2, <1>3, <1>4, <1>5, <1>6 DEF UnitOfWorkInv

LEMMA ExitWithExceptionKeeps ==
  ASSUME UnitOfWorkInv, ExitWithException
  PROVE  UnitOfWorkInv'
<1>1. TypeOK'
  BY Orders DEF UnitOfWorkInv, UnitInv, TypeOK, ExitWithException, Goto, data, unit
<1>2. LockInv'
  BY LocksKept DEF UnitOfWorkInv, ExitWithException, data
<1>3. UnitInv'
  BY Orders DEF UnitOfWorkInv, TypeOK, UnitInv, ExitWithException, Goto, data, unit
<1>4. Clean' => OpenInv'
  BY Orders DEF UnitOfWorkInv, TypeOK, LockInv, UnitInv, Clean, OpenInv, ExitWithException, Goto,
         data, unit
<1>5. Clean' => WayOutInv'
  BY Orders DEF UnitOfWorkInv, TypeOK, LockInv, UncommittedIsPrivate, UnitInv, Clean, OpenInv,
         WayOutInv, Ours, ExitWithException, Goto, data, unit
<1>6. Untouched' => RestoreInv'
  BY Orders DEF UnitOfWorkInv, TypeOK, LockInv, UncommittedIsPrivate, UnitInv, Clean, Untouched,
         OpenInv, WayOutInv, RestoreInv, Recoverable, IsBefore, Ours, ExitWithException, Goto,
         data, unit
<1> QED
  BY <1>1, <1>2, <1>3, <1>4, <1>5, <1>6 DEF UnitOfWorkInv

LEMMA CommitFailsKeeps ==
  ASSUME UnitOfWorkInv, CommitFails
  PROVE  UnitOfWorkInv'
<1>1. TypeOK'
  BY Orders DEF UnitOfWorkInv, UnitInv, TypeOK, CommitFails, At, Fault, Note, Goto, data, unit
<1>2. LockInv'
  BY Orders DEF UnitOfWorkInv, TypeOK, LockInv, UncommittedIsPrivate, CommitFails, At, Fault,
         Note, Goto, data, unit
<1>3. UnitInv'
  BY Orders DEF UnitOfWorkInv, TypeOK, UnitInv, CommitFails, At, Fault, Note, Goto, data, unit
<1>4. ~Clean'
  BY DEF CommitFails, Fault, Note, Clean
<1> QED
  BY <1>1, <1>2, <1>3, <1>4 DEF UnitOfWorkInv, Untouched

LEMMA CommittedKeeps ==
  ASSUME UnitOfWorkInv, Committed
  PROVE  UnitOfWorkInv'
<1>1. TypeOK'
  BY Orders DEF UnitOfWorkInv, UnitInv, TypeOK, Committed, Goto, data, history
<1>2. LockInv'
  BY LocksKept DEF UnitOfWorkInv, Committed, data
<1>3. UnitInv'
  BY Orders DEF UnitOfWorkInv, TypeOK, UnitInv, Committed, Goto, data, history
<1>4. Clean' => OpenInv'
  BY Orders DEF UnitOfWorkInv, TypeOK, LockInv, UnitInv, Clean, OpenInv, Committed, Goto, data,
         history
<1>5. Clean' => WayOutInv'
  BY Orders DEF UnitOfWorkInv, TypeOK, LockInv, UncommittedIsPrivate, UnitInv, Clean, OpenInv,
         WayOutInv, Ours, Committed, Goto, data, history
<1>6. Untouched' => RestoreInv'
  BY Orders DEF UnitOfWorkInv, TypeOK, LockInv, UncommittedIsPrivate, UnitInv, Clean, Untouched,
         OpenInv, WayOutInv, RestoreInv, Recoverable, IsBefore, Ours, Committed, Goto, data,
         history
<1> QED
  BY <1>1, <1>2, <1>3, <1>4, <1>5, <1>6 DEF UnitOfWorkInv

LEMMA RolledBackKeeps ==
  ASSUME UnitOfWorkInv, RolledBack
  PROVE  UnitOfWorkInv'
<1>1. TypeOK'
  BY Orders DEF UnitOfWorkInv, UnitInv, TypeOK, RolledBack, Goto, data, history
<1>2. LockInv'
  BY LocksKept DEF UnitOfWorkInv, RolledBack, data
<1>3. UnitInv'
  BY Orders DEF UnitOfWorkInv, TypeOK, UnitInv, RolledBack, Goto, data, history
<1>4. Clean' => OpenInv'
  BY Orders DEF UnitOfWorkInv, TypeOK, LockInv, UnitInv, Clean, OpenInv, RolledBack, Goto, data,
         history
<1>5. Clean' => WayOutInv'
  BY Orders DEF UnitOfWorkInv, TypeOK, LockInv, UncommittedIsPrivate, UnitInv, Clean, OpenInv,
         WayOutInv, Ours, RolledBack, Goto, data, history
<1>6. Untouched' => RestoreInv'
  BY Orders DEF UnitOfWorkInv, TypeOK, LockInv, UncommittedIsPrivate, UnitInv, Clean, Untouched,
         OpenInv, WayOutInv, RestoreInv, Recoverable, IsBefore, Ours, RolledBack, Goto, data,
         history
<1> QED
  BY <1>1, <1>2, <1>3, <1>4, <1>5, <1>6 DEF UnitOfWorkInv

LEMMA CrashKeeps ==
  ASSUME UnitOfWorkInv, Crash
  PROVE  UnitOfWorkInv'
<1>1. TypeOK'
  <2>1. /\ 0 \in 0..MaxUses /\ <<>> \in Seq(Contents) /\ 1 \in 1..(Len(Order) + 1)
        /\ faults' \in 0..MaxFaults /\ writer' \in [Databases -> Sqlite \cup {NoWriter}]
    BY Orders, EmptyList DEF Crash, Fault, NoLocks, UnitOfWorkInv, TypeOK
  <2> QED
    BY <2>1 DEF UnitOfWorkInv, TypeOK, Crash, Note, Goto, Fault
<1>2. LockInv'
  BY Orders DEF UnitOfWorkInv, TypeOK, LockInv, UncommittedIsPrivate, Crash, Fault, Note, Goto,
         NoLocks
<1>3. UnitInv'
  BY Orders DEF UnitOfWorkInv, TypeOK, UnitInv, Crash, Fault, Note, Goto, NoLocks
<1>4. ~Clean'
  BY DEF Crash, Fault, Note, Clean
<1> QED
  BY <1>1, <1>2, <1>3, <1>4 DEF UnitOfWorkInv, Untouched

(***************************************************************************)
(* Theorems                                                                *)
(***************************************************************************)

LEMMA UnitsBegin ==
  ASSUME Init
  PROVE  UnitOfWorkInv
<1>1. TypeOK
  <2>1. {} \in Contents /\ <<>> \in Seq(Contents) /\ 1 \in 1..(Len(Order) + 1)
        /\ 0 \in 0..MaxUses /\ 0 \in 0..MaxFaults
    BY Orders, EmptyList DEF Contents
  <2>2. disk \in [Repo -> Contents]
    BY <2>1 DEF Init
  <2>3. writer \in [Databases -> Sqlite \cup {NoWriter}]
    BY DEF Init, NoLocks
  <2> QED
    BY <2>1, <2>2, <2>3 DEF Init, TypeOK
<1>2. LockInv
  BY Orders DEF Init, LockInv, UncommittedIsPrivate, NoLocks, Plain
<1>3. UnitInv
  BY DEF Init, UnitInv
<1> QED
  BY <1>1, <1>2, <1>3 DEF Init, UnitOfWorkInv, Clean, Untouched

LEMMA UnitsStep ==
  ASSUME UnitOfWorkInv, Next
  PROVE  UnitOfWorkInv'
BY NewUnitKeeps, EnterKeeps, BeginSqliteKeeps, BeginPlainKeeps, ChangeKeeps, SaveFailsKeeps,
   OtherChangeKeeps, CommitOneKeeps, RollbackSqliteKeeps, RestorePlainKeeps,
   RestoreFailsKeeps, BeginFailsKeeps, BegunKeeps, CallInBlockKeeps, ExitNormallyKeeps,
   ExitWithExceptionKeeps, CommitFailsKeeps, CommittedKeeps, RolledBackKeeps, CrashKeeps DEF Next

LEMMA UnitsKept ==
  ASSUME UnitOfWorkInv, UNCHANGED vars
  PROVE  UnitOfWorkInv'
<1>1. /\ TypeOK' = TypeOK /\ LockInv' = LockInv /\ UnitInv' = UnitInv
      /\ Clean' = Clean /\ Untouched' = Untouched
  BY DEF vars, TypeOK, LockInv, UncommittedIsPrivate, UnitInv, Copied, Clean, Untouched
<1>2. OpenInv' = OpenInv /\ WayOutInv' = WayOutInv /\ RestoreInv' = RestoreInv
  BY DEF vars, OpenInv, WayOutInv, RestoreInv, Recoverable, IsBefore, Ours, Copied
<1> QED
  BY <1>1, <1>2 DEF UnitOfWorkInv

THEOREM UnitsInv == Spec => []UnitOfWorkInv
<1>1. Init => UnitOfWorkInv
  BY UnitsBegin
<1>2. UnitOfWorkInv /\ [Next]_vars => UnitOfWorkInv'
  BY UnitsStep, UnitsKept
<1> QED
  BY <1>1, <1>2, PTL DEF Spec

(***************************************************************************)
(* What a commit that fails leaves                                         *)
(***************************************************************************)

\* A unit used once, whose block does not end it, whatever fails.
First == notes \cap {"again", "called"} = {}

SqlitePlaces == {i \in 1..Len(Order) : Order[i] \in Sqlite}

TornInv ==
  /\ pc = "begin" => \A i \in SqlitePlaces : i < next => Order[i] \in open
  /\ pc = "in" => \A i \in SqlitePlaces : Order[i] \in open
  /\ pc \in {"begin", "in", "rollback"} => CommittedUpTo(0)
  /\ pc \in {"commit", "rollback"} => leaving
  /\ pc = "commit" => /\ \E n \in 0..Len(Order) : next = n + 1 /\ CommittedUpTo(n)
                      /\ \A r \in Ours \cap Sqlite : store[r] = after[r]
  /\ \E n \in 0..Len(Order) : CommittedUpTo(n)

\* A step that neither stores nor begins anything in the databases of the unit.
LEMMA TornKept ==
  ASSUME NEW n \in 0..Len(Order), CommittedUpTo(n), Ours' \cap Sqlite \subseteq Ours,
         \A r \in Ours' \cap Sqlite : disk'[r] = disk[r] /\ before'[r] = before[r],
         n = 0 \/ (\A r \in Ours' \cap Sqlite : after'[r] = after[r] /\ (r \in open' => r \in open))
  PROVE  CommittedUpTo(n)'
<1>1. \A i \in 1..Len(Order) : i \in Int /\ ~(i <= 0)
  BY Orders
<1>2. DOMAIN Order = 1..Len(Order)
  BY Orders
<1> QED
  BY <1>1, <1>2 DEF CommittedUpTo

\* The same of every place, where the block had been left before.
LEMMA AllTornKept ==
  ASSUME Ours' \cap Sqlite \subseteq Ours,
         \A r \in Ours' \cap Sqlite : disk'[r] = disk[r] /\ before'[r] = before[r],
         UNCHANGED after, \A r \in Sqlite : r \in open' => r \in open
  PROVE  \A n \in 0..Len(Order) : CommittedUpTo(n) => CommittedUpTo(n)'
BY TornKept

LEMMA Places == 0 \in 0..Len(Order) /\ \A i \in 1..Len(Order) : i \in 0..Len(Order) /\ i - 1 \in 0..Len(Order)
BY Orders

\* Steps that leave what is stored, or change a repository of another kind.
LEMMA OtherStepsTear ==
  ASSUME UnitOfWorkInv, First => TornInv, First',
         NewUnit \/ BeginFails \/ Begun \/ CommitFails \/ Committed \/ RolledBack \/ Crash
         \/ (\E r \in Repo : BeginPlain(r) \/ RollbackSqlite(r) \/ RestorePlain(r) \/ RestoreFails(r)
               \/ (\E contents \in Contents : SaveFails(r, contents)))
  PROVE  TornInv'
<1>1. First /\ TornInv
  BY DEF First, NewUnit, BeginFails, Begun, CommitFails, Committed, RolledBack, Crash, BeginPlain,
         RollbackSqlite, RestorePlain, RestoreFails, SaveFails, EnterFails, Fault, Note, history
<1>2. /\ Ours' \cap Sqlite \subseteq Ours
      /\ \A r \in Ours' \cap Sqlite : disk'[r] = disk[r] /\ before'[r] = before[r]
      /\ UNCHANGED after
      /\ \A r \in Sqlite : r \in open' => r \in open
  <2>1. CASE NewUnit \/ BeginFails \/ Begun \/ CommitFails \/ Committed \/ RolledBack \/ Crash
    BY <2>1 DEF NewUnit, BeginFails, Begun, CommitFails, Committed, RolledBack, Crash, EnterFails,
         Fault, Note, Ours, data, history
  <2>2. CASE \E r \in Repo : BeginPlain(r) \/ RollbackSqlite(r) \/ RestorePlain(r) \/ RestoreFails(r)
               \/ (\E contents \in Contents : SaveFails(r, contents))
    BY <2>2, Orders DEF BeginPlain, RollbackSqlite, RestorePlain, RestoreFails, SaveFails, At,
         Persisted, Fault, Note, Ours, data, history, UnitOfWorkInv, TypeOK
  <2> QED
    BY <2>1, <2>2
<1>3. \A n \in 0..Len(Order) : CommittedUpTo(n) => CommittedUpTo(n)'
  BY <1>2, AllTornKept
<1>4. \E n \in 0..Len(Order) : CommittedUpTo(n)'
  BY <1>1, <1>3 DEF TornInv
<1>5. CASE pc' = "out"
  BY <1>4, <1>5 DEF TornInv
<1>6. CASE Begun
  <2>1. pc = "begin" /\ pc' = "in" /\ next > Len(Order) /\ UNCHANGED open /\ next \in Int
    BY <1>6, Orders DEF Begun, Goto, data, UnitOfWorkInv, TypeOK
  <2>2. \A i \in SqlitePlaces : Order[i] \in open'
    BY <1>1, <2>1, Orders DEF TornInv, SqlitePlaces
  <2> QED
    BY <1>1, <1>3, <1>4, <2>1, <2>2, Places DEF TornInv
<1>7. CASE \E r \in Repo : BeginPlain(r)
  <2>1. /\ pc = "begin" /\ pc' = "begin" /\ next' = next + 1 /\ UNCHANGED open
        /\ next \in 1..Len(Order) /\ Order[next] \notin Sqlite
    BY <1>7, Orders DEF BeginPlain, At, data, UnitOfWorkInv, TypeOK
  <2>2. \A i \in SqlitePlaces : i < next' => i < next
    BY <2>1, Orders DEF SqlitePlaces
  <2> QED
    BY <1>1, <1>3, <1>4, <2>1, <2>2, Places DEF TornInv
<1>8. CASE \E r \in Repo : RollbackSqlite(r) \/ RestorePlain(r)
  BY <1>1, <1>3, <1>4, <1>8, Places DEF TornInv, RollbackSqlite, RestorePlain, At
<1>9. CASE \E r \in Repo : \E contents \in Contents : SaveFails(r, contents)
  BY <1>1, <1>3, <1>4, <1>9 DEF TornInv, SaveFails, control
<1>10. pc' = "out" \/ Begun \/ (\E r \in Repo : BeginPlain(r) \/ RollbackSqlite(r) \/ RestorePlain(r)
         \/ (\E contents \in Contents : SaveFails(r, contents)))
  BY <1>1 DEF TornInv, NewUnit, BeginFails, CommitFails, Committed, RolledBack, Crash, RestoreFails,
         EnterFails, Goto, At
<1> QED
  BY <1>5, <1>6, <1>7, <1>8, <1>9, <1>10

LEMMA EnterTears ==
  ASSUME UnitOfWorkInv, Enter, First'
  PROVE  TornInv'
<1>1. Sound /\ pc' = "begin" /\ next' = 1 /\ before' = store /\ UNCHANGED <<store, disk>>
  BY DEF Enter, Goto, First, data, UnitOfWorkInv, TypeOK
<1>2. \A r \in Sqlite : disk'[r] = before'[r]
  BY <1>1 DEF Sound, UnitOfWorkInv, LockInv, UncommittedIsPrivate
<1>3. \A i \in 1..Len(Order) : i \in Int /\ ~(i <= 0) /\ ~(i < 1)
  BY Orders
<1>4. CommittedUpTo(0)'
  BY <1>2, <1>3, Orders DEF CommittedUpTo
<1> QED
  BY <1>1, <1>3, <1>4, Places DEF TornInv, SqlitePlaces

LEMMA BeginSqliteTears ==
  ASSUME UnitOfWorkInv, First => TornInv, First', NEW r \in Repo, BeginSqlite(r)
  PROVE  TornInv'
<1>1. First /\ TornInv /\ pc = "begin"
  BY DEF First, BeginSqlite, EnterFails, Note, history, At
<1>2. Ours' = Ours /\ UNCHANGED <<disk, before, after>>
  BY DEF BeginSqlite, EnterFails, Ours, data, history
<1>3. 0 \in 0..Len(Order) /\ CommittedUpTo(0)
  BY <1>1, Places DEF TornInv
<1>4. CommittedUpTo(0)'
  BY <1>2, <1>3, TornKept
<1>5. next \in 1..Len(Order) /\ Order[next] = r
  BY Orders DEF BeginSqlite, At, UnitOfWorkInv, TypeOK
<1>6. CASE r \in open
  BY <1>3, <1>4, <1>6 DEF TornInv, BeginSqlite, EnterFails, Goto
<1>7. CASE r \notin open
  <2>1. open' = open \cup {r} /\ next' = next + 1 /\ pc' = "begin"
    BY <1>1, <1>7 DEF BeginSqlite
  <2>2. \A i \in SqlitePlaces : i < next' => Order[i] \in open'
    BY <1>1, <1>5, <2>1, Orders DEF TornInv, SqlitePlaces
  <2> QED
    BY <1>3, <1>4, <2>1, <2>2 DEF TornInv
<1> QED
  BY <1>6, <1>7

\* A change in the block stays in its transaction.
LEMMA ChangeTears ==
  ASSUME UnitOfWorkInv, First => TornInv, First', NEW r \in Repo, NEW contents \in Contents,
         Change(r, contents)
  PROVE  TornInv'
<1>1. First /\ TornInv /\ pc = "in" /\ pc' = "in" /\ UNCHANGED <<open, before, others, after>>
  BY DEF First, Change, history, control
<1>2. Ours' = Ours
  BY <1>1 DEF Ours
<1>3. \A q \in Ours \cap Sqlite : q \in open
  BY <1>1, Orders DEF Ours, TornInv, SqlitePlaces
<1>4. \A q \in Ours \cap Sqlite : disk'[q] = disk[q]
  BY <1>3, Orders DEF Change, Saved, SavedAtOnce, UnitOfWorkInv, TypeOK
<1>5. CommittedUpTo(0)'
  BY <1>1, <1>2, <1>4, TornKept, Places DEF TornInv
<1> QED
  BY <1>1, <1>5, Places DEF TornInv

LEMMA OtherChangeTears ==
  ASSUME UnitOfWorkInv, First => TornInv, First', NEW r \in Repo, NEW contents \in Contents,
         OtherChange(r, contents)
  PROVE  TornInv'
<1>1. First /\ TornInv /\ UNCHANGED <<open, after, pc, next, leaving>>
  BY DEF First, OtherChange, control
<1>2. Ours' = Ours \ {r}
  BY DEF Ours, OtherChange
<1>3. \A q \in Ours' : disk'[q] = disk[q] /\ before'[q] = before[q] /\ store'[q] = store[q]
  BY <1>2 DEF Ours, OtherChange, SavedAtOnce, UnitOfWorkInv, TypeOK
<1>4. \A n \in 0..Len(Order) : CommittedUpTo(n) => CommittedUpTo(n)'
  BY <1>1, <1>2, <1>3, AllTornKept
<1>5. pc = "commit" => \A q \in Ours' \cap Sqlite : store'[q] = after'[q]
  BY <1>1, <1>2, <1>3 DEF TornInv
<1>6. pc = "commit" => \E n \in 0..Len(Order) : next = n + 1 /\ CommittedUpTo(n)'
  BY <1>1, <1>4 DEF TornInv
<1> QED
  BY <1>1, <1>4, <1>5, <1>6, Places DEF TornInv

LEMMA CommitOneTears ==
  ASSUME UnitOfWorkInv, First => TornInv, First', NEW r \in Repo, CommitOne(r)
  PROVE  TornInv'
<1>1. /\ First /\ TornInv /\ pc = "commit" /\ pc' = "commit" /\ next' = next + 1
      /\ UNCHANGED <<store, before, others, after, leaving>>
  BY DEF First, CommitOne, At, history
<1>2. PICK n \in 0..Len(Order) : next = n + 1 /\ CommittedUpTo(n)
  BY <1>1 DEF TornInv
<1>3. next \in 1..Len(Order) /\ Order[next] = r /\ next \in 0..Len(Order)
  BY <1>1, Orders DEF CommitOne, At, UnitOfWorkInv, TypeOK
<1>4. Ours' = Ours
  BY <1>1 DEF Ours
<1>5. \A q \in Ours \cap Sqlite : store[q] = after[q]
  BY <1>1 DEF TornInv
<1>6. \A q \in Sqlite \ {r} : disk'[q] = disk[q] /\ (q \in open' => q \in open)
  BY Orders DEF CommitOne, CommittedOf, UnitOfWorkInv, TypeOK
<1>7. r \in Sqlite => disk'[r] = store[r] /\ r \notin open'
  BY DEF CommitOne, CommittedOf, UnitOfWorkInv, TypeOK
<1> DEFINE N == n + 1
<1>8. ASSUME NEW i \in DOMAIN Order, Order[i] \in Ours \cap Sqlite
      PROVE  IF i <= N THEN disk'[Order[i]] = after[Order[i]] /\ Order[i] \notin open'
                       ELSE disk'[Order[i]] = before[Order[i]]
  <2>1. CASE i = next
    BY <1>2, <1>3, <1>5, <1>7, <1>8, <2>1
  <2>2. CASE i # next
    <3>1. Order[i] # r /\ (i <= N <=> i <= n)
      BY <1>2, <1>3, <2>2, Orders
    <3>2. IF i <= n THEN disk[Order[i]] = after[Order[i]] /\ Order[i] \notin open
                    ELSE disk[Order[i]] = before[Order[i]]
      BY <1>2, <1>8 DEF CommittedUpTo
    <3> QED
      BY <1>6, <1>8, <3>1, <3>2
  <2> QED
    BY <2>1, <2>2
<1>9. N \in 0..Len(Order) /\ next' = N + 1
  BY <1>1, <1>2, <1>3
<1>10. CommittedUpTo(N)'
  <2> HIDE DEF N
  <2> QED
    BY <1>1, <1>4, <1>8 DEF CommittedUpTo
<1>11. /\ \E k \in 0..Len(Order) : next' = k + 1 /\ CommittedUpTo(k)'
       /\ \E k \in 0..Len(Order) : CommittedUpTo(k)'
  <2> HIDE DEF N
  <2> QED
    BY <1>9, <1>10
<1> QED
  BY <1>1, <1>4, <1>5, <1>11 DEF TornInv

\* The block is left; nothing of its unit is stored in a database yet.
LEMMA ExitTears ==
  ASSUME UnitOfWorkInv, First => TornInv, First', ExitNormally \/ ExitWithException
  PROVE  TornInv'
<1>1. /\ First /\ TornInv /\ pc = "in" /\ after' = store /\ leaving' /\ next' = 1
      /\ pc' \in {"out", "commit", "rollback"}
      /\ UNCHANGED <<store, disk, before, others>>
  BY DEF First, ExitNormally, ExitWithException, Goto, data
<1>2. CommittedUpTo(0) /\ Ours' = Ours
  BY <1>1 DEF TornInv, Ours
<1>3. CommittedUpTo(0)'
  BY <1>1, <1>2, TornKept, Places
<1>4. next' = 0 + 1
  BY <1>1
<1> QED
  BY <1>1, <1>2, <1>3, <1>4, Places DEF TornInv

LEMMA UnitsTear ==
  ASSUME UnitOfWorkInv, First => TornInv, Next
  PROVE  First' => TornInv'
<1> SUFFICES ASSUME First'
             PROVE  TornInv'
  OBVIOUS
<1>1. \A method \in {"commit", "rollback"} : ~CallInBlock(method)
  BY DEF CallInBlock, Note, First
<1> QED
  BY <1>1, OtherStepsTear, EnterTears, BeginSqliteTears, ChangeTears, OtherChangeTears,
     CommitOneTears, ExitTears DEF Next

\* Every variable keeps its type: in particular a rollback finds a snapshot for each
\* repository it restores.
THEOREM TypeCorrect == Spec => []TypeOK
<1>1. UnitOfWorkInv => TypeOK
  BY DEF UnitOfWorkInv
<1> QED
  BY <1>1, UnitsInv, PTL

\* Whatever fails in the first use of a unit, its databases show what a beginning of its
\* repositories was left with, and of the others what they had.
THEOREM AlwaysTornInOrder == Spec => []TornInOrder
<1>1. Init => UnitOfWorkInv /\ (First => TornInv)
  <2> SUFFICES ASSUME Init
               PROVE  TornInv
    BY UnitsBegin
  <2>1. pc = "out" /\ \A r \in Sqlite : disk[r] = before[r]
    BY Orders DEF Init, Repo, Plain, UnitOfWorkAssumption
  <2>2. \A i \in 1..Len(Order) : i \in Int /\ ~(i <= 0)
    BY Orders
  <2>3. CommittedUpTo(0)
    BY <2>1, <2>2, Orders DEF CommittedUpTo
  <2> QED
    BY <2>1, <2>3, Places DEF TornInv
<1>2. UnitOfWorkInv /\ (First => TornInv) /\ [Next]_vars => (UnitOfWorkInv /\ (First => TornInv))'
  <2>1. ASSUME UnitOfWorkInv, First => TornInv, UNCHANGED vars
        PROVE  First' => TornInv'
    BY <2>1 DEF vars, First, TornInv, CommittedUpTo, Ours
  <2> QED
    BY <2>1, UnitsStep, UnitsKept, UnitsTear
<1>3. UnitOfWorkInv /\ (First => TornInv) => TornInOrder
  BY DEF TornInOrder, First, TornInv
<1> QED
  BY <1>1, <1>2, <1>3, PTL DEF Spec

\* The first use of a unit in which no call fails leaves no transaction and no lock.
THEOREM NothingEverLeftOpen == Spec => []NothingLeftOpen
<1>1. UnitOfWorkInv => NothingLeftOpen
  <2> SUFFICES ASSUME UnitOfWorkInv, Over
               PROVE  open = {} /\ writer = NoLocks
    BY DEF NothingLeftOpen
  <2>1. open = {}
    BY DEF Over, Clean, UnitOfWorkInv, OpenInv
  <2>2. \A d \in Databases : writer[d] = NoWriter
    BY <2>1 DEF UnitOfWorkInv, LockInv
  <2> QED
    BY <2>1, <2>2 DEF NoLocks, UnitOfWorkInv, TypeOK
<1> QED
  BY <1>1, UnitsInv, PTL

\* Such a use that ends with an exception gives every repository back what it had.
THEOREM ExceptionsRestore == Spec => []ExceptionRestores
<1>1. UnitOfWorkInv => ExceptionRestores
  BY DEF UnitOfWorkInv, ExceptionRestores, Over, Clean, Untouched, RestoreInv, IsBefore
<1> QED
  BY <1>1, UnitsInv, PTL

\* Such a use that ends without one has made durable what its block left.
THEOREM CommitsAreDurable == Spec => []CommitIsDurable
<1>1. UnitOfWorkInv => CommitIsDurable
  <2> SUFFICES ASSUME UnitOfWorkInv, Over, ~raised, NEW r \in Ours \ Memory
               PROVE  disk[r] = after[r]
    BY DEF CommitIsDurable
  <2>1. OpenInv /\ WayOutInv /\ pc = "out"
    BY DEF UnitOfWorkInv, Over, Clean
  <2>2. store[r] = after[r]
    BY <2>1 DEF WayOutInv
  <2>3. CASE r \in Json
    BY <2>1, <2>2, <2>3 DEF WayOutInv
  <2>4. CASE r \in Sqlite
    <3>1. writer[Db[r]] # r
      BY <2>1, <2>4 DEF OpenInv, UnitOfWorkInv, LockInv, UncommittedIsPrivate
    <3> QED
      BY <2>2, <2>4, <3>1 DEF UnitOfWorkInv, LockInv, UncommittedIsPrivate
  <2> QED
    BY <2>3, <2>4 DEF Ours, Repo, Plain
<1> QED
  BY <1>1, UnitsInv, PTL

=============================================================================
