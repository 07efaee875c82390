----------------------------- MODULE JsonStore -----------------------------
(***************************************************************************)
(* dinarledger.storage.json_store: repository instances (one per process,  *)
(* each with its threads) that keep their entities in memory and in one    *)
(* JSON file with rotating backups.  A step is what one thread does        *)
(* between two points where others can see it: taking or releasing the     *)
(* instance's lock, the advisory file lock, a read or change of the cache, *)
(* of the file or of a backup.  A process may crash between any two steps. *)
(*                                                                         *)
(* The contents of the store map each key to a value or to Absent.         *)
(***************************************************************************)
EXTENDS Integers, FiniteSets

CONSTANTS
  Thread,       \* threads that call a repository
  Repo,         \* repository instances, one per process
  Of,           \* the instance each thread calls
  Key,          \* entity ids
  Value,        \* entities
  Absent,       \* no entity is stored under a key
  NoFile,       \* the file, or a backup, does not exist
  Torn,         \* a backup whose copy was cut short
  Unloaded,     \* the cache of an instance that has not read the file
  NoThread,     \* nobody holds a lock
  BackupCount,  \* rotating backups kept, at least 1
  AutoSave,     \* the instances that write a change at once
  NoOp,         \* the call of a thread that makes none
  MaxCalls,     \* bound: calls that may write the file
  MaxFaults     \* bound: crashes and failed writes

Contents == [Key -> Value \cup {Absent}]
Empty == [k \in Key |-> Absent]
Backup == 1..BackupCount
Change == {"add", "update", "delete"}
Op == [kind : Change \cup {"get", "flush", "reload"}, key : Key, value : Value]

ASSUME JsonStoreAssumption ==
  /\ Of \in [Thread -> Repo]
  /\ Absent \notin Value
  /\ {NoFile, Torn, Unloaded} \cap Contents = {}
  /\ NoFile # Torn
  /\ NoThread \notin Thread
  /\ BackupCount \in Nat \ {0}
  /\ AutoSave \subseteq Repo
  /\ NoOp \notin Op
  /\ MaxCalls \in Nat /\ MaxFaults \in Nat

VARIABLES
  file,      \* the JSON file
  backup,    \* the backups, bak.1 first
  flock,     \* the thread that holds the advisory lock on the file
  cache,     \* what each instance holds in memory
  lock,      \* the thread that holds each instance's lock
  pc,        \* where each thread is in its call
  op,        \* the call of each thread: its kind, key and value
  raw,       \* what a thread has read and has still to put into the cache, or is to write
  index,     \* the backup a rotating thread copies to next
  calls,     \* calls made that may write
  faults,    \* crashes and failures so far
  rotated,   \* history: no rotation was ever cut short
  published, \* history: the contents the file had before each of its last changes
  synced     \* history: nothing has parted an instance's cache from the file

locks == <<flock, lock>>
history == <<rotated, published, synced>>
vars == <<file, backup, flock, cache, lock, pc, op, raw, index, calls, faults,
          rotated, published, synced>>

PC == {"idle", "ensure", "wait", "read", "fill", "run", "save", "rotate", "publish"}

Init ==
  /\ file \in Contents \cup {NoFile}
  /\ backup = [b \in Backup |-> NoFile]
  /\ flock = NoThread
  /\ cache = [r \in Repo |-> Unloaded]
  /\ lock = [r \in Repo |-> NoThread]
  /\ pc = [t \in Thread |-> "idle"]
  /\ op = [t \in Thread |-> NoOp]
  /\ raw = [t \in Thread |-> Empty]
  /\ index = [t \in Thread |-> 0]
  /\ calls = 0 /\ faults = 0
  /\ rotated = TRUE
  /\ published = [b \in Backup |-> NoFile]
  /\ synced = [r \in Repo |-> TRUE]

Loaded(r) == cache[r] # Unloaded

Goto(t, where) == pc' = [pc EXCEPT ![t] = where]

\* The call returns, or its exception leaves the repository.
Return(t) ==
  /\ pc' = [pc EXCEPT ![t] = "idle"]
  /\ op' = [op EXCEPT ![t] = NoOp]
  /\ raw' = [raw EXCEPT ![t] = Empty]
  /\ index' = [index EXCEPT ![t] = 0]

StillHeld(t) == lock

\* An instance's lock after t is done with it: flush does not hold it.
Released(t) == [lock EXCEPT ![Of[t]] = IF @ = t THEN NoThread ELSE @]

Fault == faults < MaxFaults /\ faults' = faults + 1

(***************************************************************************)
(* The calls, and _ensure_loaded                                           *)
(***************************************************************************)

\* Only flush and reload do not load first.
Call(t, o) ==
  /\ pc[t] = "idle"
  /\ IF o.kind = "get" THEN UNCHANGED calls ELSE calls < MaxCalls /\ calls' = calls + 1
  /\ op' = [op EXCEPT ![t] = o]
  /\ Goto(t, IF o.kind \in {"flush", "reload"} THEN "run" ELSE "ensure")
  /\ UNCHANGED <<file, backup, locks, cache, raw, index, faults, history>>

\* The check made without the lock.
EnsureLoaded(t) ==
  /\ pc[t] = "ensure"
  /\ Goto(t, IF Loaded(Of[t]) THEN "run" ELSE "wait")
  /\ UNCHANGED <<file, backup, locks, cache, op, raw, index, calls, faults, history>>

\* The lock is free: another thread has loaded meanwhile, or there is no file, or
\* this thread goes on to read it with the lock held.
LockToLoad(t) ==
  LET r == Of[t] IN
  /\ pc[t] = "wait"
  /\ lock[r] = NoThread
  /\ \/ /\ Loaded(r)
        /\ Goto(t, "run")
        /\ UNCHANGED <<cache, lock, synced>>
     \/ /\ ~Loaded(r) /\ file = NoFile
        /\ cache' = [cache EXCEPT ![r] = Empty]
        /\ synced' = [synced EXCEPT ![r] = TRUE]
        /\ Goto(t, "run")
        /\ UNCHANGED lock
     \/ /\ ~Loaded(r) /\ file # NoFile
        /\ lock' = [lock EXCEPT ![r] = t]
        /\ Goto(t, "read")
        /\ UNCHANGED <<cache, synced>>
  /\ UNCHANGED <<file, backup, flock, op, raw, index, calls, faults, rotated, published>>

\* The file is read under the file lock, and an empty cache is set before it is filled.
ReadFile(t) ==
  /\ pc[t] = "read"
  /\ flock = NoThread
  /\ raw' = [raw EXCEPT ![t] = file]
  /\ cache' = [cache EXCEPT ![Of[t]] = Empty]
  /\ synced' = [synced EXCEPT ![Of[t]] = TRUE]
  /\ Goto(t, "fill")
  /\ UNCHANGED <<file, backup, locks, op, index, calls, faults, rotated, published>>

ToFillFirst(t) == {k \in Key : cache[Of[t]] = Empty /\ raw[t][k] # Absent}

ToFill(t) == {k \in Key : raw[t][k] # cache[Of[t]][k]}

\* One entity after the other is deserialized into the cache.
FillOne(t, k) ==
  /\ pc[t] = "fill"
  /\ k \in ToFill(t)
  /\ cache' = [cache EXCEPT ![Of[t]][k] = raw[t][k]]
  /\ UNCHANGED <<file, backup, locks, pc, op, raw, index, calls, faults, history>>

Filled(t) ==
  /\ pc[t] = "fill"
  /\ ToFill(t) = {}
  /\ lock' = Released(t)
  /\ raw' = [raw EXCEPT ![t] = Empty]
  /\ Goto(t, "run")
  /\ UNCHANGED <<file, backup, flock, cache, op, index, calls, faults, history>>

\* An entity that cannot be deserialized: the call raises, and the cache stays as far
\* as it was filled.
LoadFails(t) ==
  /\ pc[t] = "fill"
  /\ ToFill(t) # {}
  /\ Fault
  /\ lock' = Released(t)
  /\ synced' = [synced EXCEPT ![Of[t]] = FALSE]
  /\ Return(t)
  /\ UNCHANGED <<file, backup, flock, cache, calls, rotated, published>>

(***************************************************************************)
(* What the calls do once the store is loaded                              *)
(***************************************************************************)

\* get takes no lock; its assertion fails if a reload came in between.
Get(t) ==
  /\ pc[t] = "run"
  /\ op[t].kind = "get"
  /\ Return(t)
  /\ UNCHANGED <<file, backup, locks, cache, calls, faults, history>>

Reload(t) ==
  /\ pc[t] = "run"
  /\ op[t].kind = "reload"
  /\ lock[Of[t]] = NoThread
  /\ cache' = [cache EXCEPT ![Of[t]] = Unloaded]
  /\ Return(t)
  /\ UNCHANGED <<file, backup, locks, calls, faults, history>>

NulledByDelete(o, contents) ==
  [contents EXCEPT ![o.key] = IF o.kind = "delete" THEN NoFile ELSE o.value]

\* The change a call makes to the cache.
Changed(o, contents) ==
  [contents EXCEPT ![o.key] = IF o.kind = "delete" THEN Absent ELSE o.value]

\* An update of a missing entity raises, a delete of one returns False.
Refused(o, contents) == o.kind \in {"update", "delete"} /\ contents[o.key] = Absent

\* add, update and delete: the cache is changed and serialized with the lock held.
\* After a reload that came in between, the call raises.
ChangeCache(t) ==
  LET r == Of[t] IN
  /\ pc[t] = "run"
  /\ op[t].kind \in Change
  /\ lock[r] = NoThread
  /\ IF Loaded(r) /\ ~Refused(op[t], cache[r])
     THEN /\ cache' = [cache EXCEPT ![r] = Changed(op[t], cache[r])]
          /\ IF r \in AutoSave
             THEN /\ lock' = [lock EXCEPT ![r] = t]
                  /\ raw' = [raw EXCEPT ![t] = Changed(op[t], cache[r])]
                  /\ Goto(t, "save")
                  /\ UNCHANGED <<op, index, synced>>
             ELSE /\ Return(t)
                  /\ synced' = [synced EXCEPT ![r] = FALSE]
                  /\ UNCHANGED lock
     ELSE /\ Return(t)
          /\ UNCHANGED <<cache, lock, synced>>
  /\ UNCHANGED <<file, backup, flock, calls, faults, rotated, published>>

\* flush serializes the cache without the lock, and does nothing before a load.
Flush(t) ==
  /\ pc[t] = "run"
  /\ op[t].kind = "flush"
  /\ IF Loaded(Of[t])
     THEN /\ raw' = [raw EXCEPT ![t] = cache[Of[t]]]
          /\ Goto(t, "save")
          /\ UNCHANGED <<op, index>>
     ELSE Return(t)
  /\ UNCHANGED <<file, backup, locks, cache, calls, faults, history>>

(***************************************************************************)
(* _save, from the temporary file on                                       *)
(***************************************************************************)

\* The temporary file is written and the file lock taken.
LockFile(t) ==
  /\ pc[t] = "save"
  /\ flock = NoThread
  /\ flock' = t
  /\ IF file # NoFile
     THEN Goto(t, "rotate") /\ index' = [index EXCEPT ![t] = BackupCount]
     ELSE Goto(t, "publish") /\ UNCHANGED index
  /\ UNCHANGED <<file, backup, cache, lock, op, raw, calls, faults, history>>

RotatedIfMissing(i) == IF backup[i] # NoFile \/ i > 1 THEN backup ELSE [backup EXCEPT ![i] = file]

RotatedUpwards(i) ==
  LET b == BackupCount + 1 - i
  IN  IF b = 1 THEN [backup EXCEPT ![1] = file] ELSE [backup EXCEPT ![b] = backup[b - 1]]

\* The backups after copying to number i: of the one before it, or of the file.
Rotated(i) ==
  IF i = 1 THEN [backup EXCEPT ![1] = file]
  ELSE IF backup[i-1] = NoFile THEN backup
  ELSE [backup EXCEPT ![i] = backup[i-1]]

Rotate(t) ==
  /\ pc[t] = "rotate"
  /\ backup' = Rotated(index[t])
  /\ index' = [index EXCEPT ![t] = @ - 1]
  /\ Goto(t, IF index[t] = 1 THEN "publish" ELSE "rotate")
  /\ UNCHANGED <<file, locks, cache, op, raw, calls, faults, history>>

\* os.replace, and the locks are released.
Publish(t) ==
  /\ pc[t] = "publish"
  /\ file' = raw[t]
  /\ flock' = NoThread
  /\ lock' = Released(t)
  /\ published' = IF file = NoFile THEN published
                  ELSE [b \in Backup |-> IF b = 1 THEN file ELSE published[b-1]]
  /\ synced' = [r \in Repo |->
       /\ r = Of[t]
       /\ raw[t] = cache[r]
       /\ op[t].kind = "flush" => synced[r] /\ lock[r] = NoThread]
  /\ Return(t)
  /\ UNCHANGED <<backup, cache, calls, faults, rotated>>

\* A copy that is cut short leaves its backup torn.
CutShort(t) ==
  IF pc[t] = "rotate"
  THEN /\ backup' \in {backup, [backup EXCEPT ![index[t]] = Torn]}
       /\ rotated' = FALSE
  ELSE /\ UNCHANGED backup
       /\ rotated' = (rotated /\ pc[t] # "publish")

\* Writing the temporary file, rotating or replacing the file raises: the change
\* stays in memory only.
SaveFails(t) ==
  /\ pc[t] \in {"save", "rotate", "publish"}
  /\ Fault
  /\ CutShort(t)
  /\ flock' = IF flock = t THEN NoThread ELSE flock
  /\ lock' = Released(t)
  /\ synced' = [synced EXCEPT ![Of[t]] = FALSE]
  /\ Return(t)
  /\ UNCHANGED <<file, cache, calls, published>>

\* The process of an instance dies, and one without its cache takes its place; the
\* operating system drops its file lock.
Crash(r) ==
  LET mine == {t \in Thread : Of[t] = r} IN
  /\ Fault
  /\ \E t \in mine : pc[t] # "idle"
  /\ IF flock \in mine THEN CutShort(flock) ELSE UNCHANGED <<backup, rotated>>
  /\ flock' = IF flock \in mine THEN NoThread ELSE flock
  /\ lock' = [lock EXCEPT ![r] = NoThread]
  /\ cache' = [cache EXCEPT ![r] = Unloaded]
  /\ pc' = [t \in Thread |-> IF t \in mine THEN "idle" ELSE pc[t]]
  /\ op' = [t \in Thread |-> IF t \in mine THEN NoOp ELSE op[t]]
  /\ raw' = [t \in Thread |-> IF t \in mine THEN Empty ELSE raw[t]]
  /\ index' = [t \in Thread |-> IF t \in mine THEN 0 ELSE index[t]]
  /\ UNCHANGED <<file, calls, published, synced>>

\* The steps of a call; the others start one, or make it fail.
InCall(t) ==
  \/ EnsureLoaded(t)
  \/ LockToLoad(t)
  \/ ReadFile(t)
  \/ \E k \in Key : FillOne(t, k)
  \/ Filled(t)
  \/ Get(t)
  \/ Reload(t)
  \/ ChangeCache(t)
  \/ Flush(t)
  \/ LockFile(t)
  \/ Rotate(t)
  \/ Publish(t)

Next ==
  \/ \E t \in Thread :
       \/ \E o \in Op : Call(t, o)
       \/ InCall(t)
       \/ LoadFails(t)
       \/ SaveFails(t)
  \/ \E r \in Repo : Crash(r)

Spec == Init /\ [][Next]_vars

\* Threads are scheduled, and a thread that waits for a lock gets it in the end.
FairSpec == Spec /\ \A t \in Thread : SF_vars(InCall(t))

(***************************************************************************)
(* Properties                                                              *)
(***************************************************************************)

TypeOK ==
  /\ file \in Contents \cup {NoFile}
  /\ backup \in [Backup -> Contents \cup {NoFile, Torn}]
  /\ flock \in Thread \cup {NoThread}
  /\ cache \in [Repo -> Contents \cup {Unloaded}]
  /\ lock \in [Repo -> Thread \cup {NoThread}]
  /\ pc \in [Thread -> PC]
  /\ op \in [Thread -> Op \cup {NoOp}]
  /\ raw \in [Thread -> Contents]
  /\ index \in [Thread -> 0..BackupCount]
  /\ calls \in Nat /\ faults \in Nat
  /\ rotated \in BOOLEAN
  /\ published \in [Backup -> Contents \cup {NoFile}]
  /\ synced \in [Repo -> BOOLEAN]

\* The file is replaced only when bak.1 holds what it held, so a crash at any moment,
\* and a save by any process, leaves the previous store to go back to.
PreviousKept ==
  \A t \in Thread : pc[t] = "publish" /\ file # NoFile => flock = t /\ backup[1] = file

\* Between saves the backups are the last contents of the file, newest first, with
\* any number of processes writing it, unless a rotation was cut short.
BackupsAreHistory ==
  flock = NoThread /\ rotated => \A b \in Backup : backup[b] = published[b]

\* While nobody holds its lock, an instance that nothing parted from the file (a
\* failed load or save, another process's write, a flush overtaken by a load or a
\* change, a change that is not saved at once) has in the file what it has in memory.
Durable ==
  \A r \in Repo : Loaded(r) /\ lock[r] = NoThread /\ synced[r] =>
    file = cache[r] \/ (file = NoFile /\ cache[r] = Empty)

\* What add, update and delete write removes nothing else from the file: they begin
\* with the whole store in memory, also when several threads make the first access.
RemovedByDelete ==
  [][\A t \in Thread, k \in Key :
       pc[t] = "publish" /\ pc'[t] = "idle" /\ op[t].kind \in Change /\ synced[Of[t]]
         /\ file \notin {NoFile, file'} /\ file[k] # Absent /\ file'[k] = Absent
       => op[t].kind = "delete" /\ op[t].key = k]_vars

\* Every call returns: the instance's lock and the file lock are always given back,
\* and never waited for in opposite orders.
CallsReturn == \A t \in Thread : pc[t] # "idle" ~> pc[t] = "idle"

\* What base.py says of get: it returns None when no entity with the id exists.
GetFindsStored ==
  [][\A t, u \in Thread :
       pc[t] = "run" /\ op[t].kind = "get" /\ pc'[t] = "idle" /\ Of[u] = Of[t] /\ pc[u] = "fill"
         /\ cache[Of[t]][op[t].key] = Absent
       => raw[u][op[t].key] = Absent]_vars

=============================================================================
