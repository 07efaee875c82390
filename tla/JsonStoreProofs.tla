------------------------- MODULE JsonStoreProofs -------------------------
(***************************************************************************)
(* Theorems about JsonStore, for any processes, threads, keys, entities,   *)
(* backups, calls and faults.                                              *)
(***************************************************************************)
EXTENDS JsonStore, TLAPS

Saving == {"save", "rotate", "publish"}

\* Where a thread is in its call, and the locks it holds there.
ThreadInv(t) ==
  /\ pc[t] = "idle" <=> op[t] = NoOp
  /\ pc[t] \in {"read", "fill"} => lock[Of[t]] = t
  /\ pc[t] \in Saving => op[t].kind \in Change \cup {"flush"}
  /\ pc[t] \in Saving /\ op[t].kind # "flush" => lock[Of[t]] = t
  /\ pc[t] \in {"rotate", "publish"} <=> flock = t
  /\ pc[t] \in {"read", "rotate"} => file # NoFile
  /\ pc[t] = "rotate" => index[t] \in Backup

\* What it has read, or is to write, while nothing parts its instance from the file.
RawInv(t) ==
  /\ pc[t] = "fill" => Loaded(Of[t]) /\ (synced[Of[t]] => raw[t] = file)
  /\ pc[t] \in Saving /\ op[t].kind \in Change /\ synced[Of[t]] /\ file # NoFile =>
       \A k \in Key : file[k] # Absent /\ raw[t][k] = Absent => op[t].kind = "delete" /\ op[t].key = k

\* A rotation has moved what the backups above its index hold.
BackupInv ==
  /\ \A b \in Backup \ {1} : published[b - 1] = NoFile => published[b] = NoFile
  /\ BackupsAreHistory
  /\ \A t \in Thread :
       /\ pc[t] = "publish" /\ file # NoFile => backup[1] = file
       /\ pc[t] = "rotate" /\ rotated =>
            \A b \in Backup : backup[b] = IF b > index[t] THEN published[b - 1] ELSE published[b]
       /\ pc[t] = "publish" /\ rotated =>
            \A b \in Backup : backup[b] = IF file = NoFile THEN published[b]
                                          ELSE IF b = 1 THEN file ELSE published[b - 1]

JsonStoreInv ==
  /\ TypeOK
  /\ \A t \in Thread : ThreadInv(t)
  /\ \A t \in Thread : RawInv(t)
  /\ BackupInv
  /\ Durable

(***************************************************************************)
(* Facts the steps use                                                     *)
(***************************************************************************)

LEMMA Values ==
  /\ Of \in [Thread -> Repo]
  /\ Absent \notin Value /\ NoFile \notin Contents /\ Torn \notin Contents /\ Unloaded \notin Contents
  /\ NoFile # Torn /\ NoThread \notin Thread /\ NoOp \notin Op
  /\ BackupCount \in Nat /\ BackupCount >= 1 /\ 1 \in Backup /\ BackupCount \in Backup
  /\ Empty \in Contents
BY JsonStoreAssumption DEF Backup, Empty, Contents

LEMMA ChangedIsContents ==
  ASSUME NEW o \in Op, NEW contents \in Contents
  PROVE  Changed(o, contents) \in Contents
BY DEF Changed, Op, Contents

\* What a call that returns leaves of its thread.
LEMMA Returned ==
  ASSUME TypeOK, NEW t \in Thread, Return(t)
  PROVE  /\ pc' \in [Thread -> PC] /\ op' \in [Thread -> Op \cup {NoOp}]
         /\ raw' \in [Thread -> Contents] /\ index' \in [Thread -> 0..BackupCount]
         /\ pc'[t] = "idle" /\ op'[t] = NoOp
         /\ \A u \in Thread \ {t} : /\ pc'[u] = pc[u] /\ op'[u] = op[u]
                                    /\ raw'[u] = raw[u] /\ index'[u] = index[u]
<1>1. 0 \in 0..BackupCount /\ Empty \in Contents /\ "idle" \in PC
  BY Values DEF PC
<1> QED
  BY <1>1 DEF Return, TypeOK

LEMMA LockReleased ==
  ASSUME TypeOK, NEW t \in Thread
  PROVE  /\ Released(t) \in [Repo -> Thread \cup {NoThread}]
         /\ Released(t)[Of[t]] # t
         /\ \A u \in Thread \ {t}, r \in Repo : Released(t)[r] = u <=> lock[r] = u
         /\ \A r \in Repo \ {Of[t]} : Released(t)[r] = lock[r]
BY Values DEF TypeOK, Released

\* A step that leaves the file, the backups and the threads that rotate alone.
LEMMA BackupsKept ==
  ASSUME BackupInv, UNCHANGED <<file, backup, flock, rotated, published>>,
         \A u \in Thread : pc'[u] \in {"rotate", "publish"} => pc'[u] = pc[u] /\ index'[u] = index[u]
  PROVE  BackupInv'
BY DEF BackupInv, BackupsAreHistory

\* Two threads of an instance do not hold its lock at once.
LEMMA OneHolder ==
  ASSUME JsonStoreInv, NEW t \in Thread, NEW u \in Thread \ {t}, Of[u] = Of[t],
         lock[Of[t]] \in {t, NoThread}
  PROVE  pc[u] \notin {"read", "fill"} /\ ~(pc[u] \in Saving /\ op[u].kind \in Change)
<1>1. lock[Of[u]] # u
  BY Values
<1>2. "flush" \notin Change
  BY DEF Change
<1> QED
  BY <1>1, <1>2 DEF JsonStoreInv, ThreadInv

LEMMA CallKeeps ==
  ASSUME JsonStoreInv, NEW t \in Thread, NEW o \in Op, Call(t, o)
  PROVE  JsonStoreInv'
<1>1. /\ pc[t] = "idle" /\ pc' = [pc EXCEPT ![t] = IF o.kind \in {"flush", "reload"} THEN "run" ELSE "ensure"]
      /\ op' = [op EXCEPT ![t] = o] /\ calls' \in Nat
      /\ UNCHANGED <<file, backup, flock, lock, cache, raw, index, faults, rotated, published, synced>>
  BY DEF Call, Goto, locks, history, JsonStoreInv, TypeOK
<1>2. /\ pc' \in [Thread -> PC] /\ op' \in [Thread -> Op \cup {NoOp}]
      /\ pc'[t] \in {"run", "ensure"} /\ op'[t] = o /\ o # NoOp
      /\ \A u \in Thread \ {t} : pc'[u] = pc[u] /\ op'[u] = op[u]
  BY <1>1, Values DEF JsonStoreInv, TypeOK, PC
<1>3. TypeOK'
  BY <1>1, <1>2 DEF JsonStoreInv, TypeOK
<1>4. \A u \in Thread : ThreadInv(u)'
  <2>1. ThreadInv(t)'
    BY <1>1, <1>2 DEF JsonStoreInv, ThreadInv, Saving
  <2> QED
    BY <1>1, <1>2, <2>1 DEF JsonStoreInv, ThreadInv, Saving
<1>5. \A u \in Thread : RawInv(u)'
  BY <1>1, <1>2 DEF JsonStoreInv, RawInv, Saving, Loaded
<1>6. BackupInv'
  BY <1>1, <1>2, BackupsKept DEF JsonStoreInv
<1>7. Durable'
  BY <1>1 DEF JsonStoreInv, Durable, Loaded
<1> QED
  BY <1>3, <1>4, <1>5, <1>6, <1>7 DEF JsonStoreInv

LEMMA EnsureLoadedKeeps ==
  ASSUME JsonStoreInv, NEW t \in Thread, EnsureLoaded(t)
  PROVE  JsonStoreInv'
<1>1. TypeOK'
  BY Values DEF JsonStoreInv, TypeOK, PC, EnsureLoaded, Goto, locks, history
<1>2. \A u \in Thread : ThreadInv(u)'
  BY Values DEF JsonStoreInv, TypeOK, ThreadInv, Saving, EnsureLoaded, Goto, locks, history
<1>3. \A u \in Thread : RawInv(u)'
  BY Values DEF JsonStoreInv, TypeOK, ThreadInv, RawInv, Saving, Loaded, EnsureLoaded, Goto,
         locks, history
<1>4. BackupInv'
  BY Values DEF JsonStoreInv, TypeOK, ThreadInv, BackupInv, BackupsAreHistory, EnsureLoaded, Goto,
         locks, history
<1>5. Durable'
  BY Values DEF JsonStoreInv, TypeOK, ThreadInv, RawInv, Durable, Loaded, EnsureLoaded, Goto,
         locks, history
<1> QED
  BY <1>1, <1>2, <1>3, <1>4, <1>5 DEF JsonStoreInv

LEMMA LockToLoadKeeps ==
  ASSUME JsonStoreInv, NEW t \in Thread, LockToLoad(t)
  PROVE  JsonStoreInv'
<1>1. TypeOK'
  <2>1. Of[t] \in Repo /\ Empty \in Contents
    BY Values
  <2>2. cache' \in [Repo -> Contents \cup {Unloaded}] /\ synced' \in [Repo -> BOOLEAN]
        /\ lock' \in [Repo -> Thread \cup {NoThread}]
    BY <2>1 DEF JsonStoreInv, TypeOK, LockToLoad
  <2>3. pc' \in [Thread -> PC]
    BY DEF JsonStoreInv, TypeOK, LockToLoad, Goto, PC
  <2> QED
    BY <2>2, <2>3 DEF JsonStoreInv, TypeOK, LockToLoad
<1>2. \A u \in Thread : ThreadInv(u)'
  BY Values DEF JsonStoreInv, TypeOK, ThreadInv, Saving, LockToLoad, Goto
<1>3. \A u \in Thread : RawInv(u)'
  BY Values DEF JsonStoreInv, TypeOK, ThreadInv, RawInv, Saving, Loaded, LockToLoad, Goto
<1>4. BackupInv'
  BY Values DEF JsonStoreInv, TypeOK, ThreadInv, BackupInv, BackupsAreHistory, LockToLoad, Goto
<1>5. Durable'
  BY Values DEF JsonStoreInv, TypeOK, ThreadInv, RawInv, Durable, Loaded, LockToLoad, Goto
<1> QED
  BY <1>1, <1>2, <1>3, <1>4, <1>5 DEF JsonStoreInv

LEMMA ReadFileKeeps ==
  ASSUME JsonStoreInv, NEW t \in Thread, ReadFile(t)
  PROVE  JsonStoreInv'
<1>1. TypeOK'
  <2>1. file \in Contents /\ Of[t] \in Repo /\ Empty \in Contents
    BY Values DEF JsonStoreInv, TypeOK, ThreadInv, ReadFile
  <2>2. raw' \in [Thread -> Contents] /\ cache' \in [Repo -> Contents \cup {Unloaded}]
        /\ synced' \in [Repo -> BOOLEAN] /\ pc' \in [Thread -> PC]
    BY <2>1 DEF JsonStoreInv, TypeOK, ReadFile, Goto, PC
  <2> QED
    BY <2>2 DEF JsonStoreInv, TypeOK, ReadFile, locks
<1>2. \A u \in Thread : ThreadInv(u)'
  BY Values DEF JsonStoreInv, TypeOK, ThreadInv, Saving, ReadFile, Goto, locks
<1>3. \A u \in Thread : RawInv(u)'
  <2>1. /\ pc'[t] = "fill" /\ raw'[t] = file /\ file' = file /\ cache'[Of[t]] = Empty /\ Empty # Unloaded
        /\ \A u \in Thread \ {t} : pc'[u] = pc[u] /\ raw'[u] = raw[u]
        /\ \A r \in Repo \ {Of[t]} : cache'[r] = cache[r] /\ synced'[r] = synced[r]
    BY Values DEF JsonStoreInv, TypeOK, ReadFile, Goto
  <2>2. op' = op /\ lock[Of[t]] = t
    BY DEF ReadFile, JsonStoreInv, ThreadInv
  <2>3. ASSUME NEW u \in Thread \ {t}
        PROVE  RawInv(u)'
    <3>1. CASE Of[u] = Of[t]
      BY <2>1, <2>2, <3>1, OneHolder DEF RawInv
    <3>2. CASE Of[u] # Of[t]
      BY <2>1, <2>2, <3>2, Values DEF JsonStoreInv, RawInv, Loaded
    <3> QED
      BY <3>1, <3>2
  <2>4. RawInv(t)'
    BY <2>1 DEF RawInv, Saving, Loaded
  <2> QED
    BY <2>3, <2>4
<1>4. BackupInv'
  BY Values DEF JsonStoreInv, TypeOK, ThreadInv, BackupInv, BackupsAreHistory, ReadFile, Goto,
         locks
<1>5. Durable'
  BY Values DEF JsonStoreInv, TypeOK, ThreadInv, RawInv, Durable, Loaded, ReadFile, Goto, locks
<1> QED
  BY <1>1, <1>2, <1>3, <1>4, <1>5 DEF JsonStoreInv

LEMMA FillOneKeeps ==
  ASSUME JsonStoreInv, NEW t \in Thread, NEW k \in Key, FillOne(t, k)
  PROVE  JsonStoreInv'
<1>1. /\ Of[t] \in Repo /\ cache[Of[t]] \in Contents /\ raw[t][k] \in Value \cup {Absent}
      /\ pc[t] = "fill" /\ lock[Of[t]] = t
  BY Values DEF JsonStoreInv, TypeOK, ThreadInv, RawInv, Loaded, FillOne, Contents
<1>2. /\ cache'[Of[t]] \in Contents /\ \A r \in Repo \ {Of[t]} : cache'[r] = cache[r]
      /\ cache' \in [Repo -> Contents \cup {Unloaded}]
  BY <1>1 DEF JsonStoreInv, TypeOK, FillOne, Contents
<1>3. TypeOK'
  BY <1>2 DEF JsonStoreInv, TypeOK, FillOne, locks, history
<1>4. \A u \in Thread : ThreadInv(u)'
  BY Values DEF JsonStoreInv, TypeOK, ThreadInv, Saving, FillOne, locks, history
<1>5. \A u \in Thread : RawInv(u)'
  <2>1. UNCHANGED <<file, pc, op, raw, synced>>
    BY DEF FillOne, history
  <2>2. \A u \in Thread : pc[u] = "fill" => cache'[Of[u]] # Unloaded
    BY <1>2, Values DEF JsonStoreInv, RawInv, Loaded
  <2> QED
    BY <2>1, <2>2 DEF JsonStoreInv, RawInv, Loaded
<1>6. BackupInv'
  BY Values DEF JsonStoreInv, TypeOK, ThreadInv, BackupInv, BackupsAreHistory, FillOne, locks,
         history
<1>7. Durable'
  BY Values DEF JsonStoreInv, TypeOK, ThreadInv, RawInv, Durable, Loaded, FillOne, locks, history
<1> QED
  BY <1>3, <1>4, <1>5, <1>6, <1>7 DEF JsonStoreInv

LEMMA FilledKeeps ==
  ASSUME JsonStoreInv, NEW t \in Thread, Filled(t)
  PROVE  JsonStoreInv'
<1>1. TypeOK'
  BY Values DEF JsonStoreInv, TypeOK, PC, Filled, Goto, Released, history
<1>2. \A u \in Thread : ThreadInv(u)'
  BY Values DEF JsonStoreInv, TypeOK, ThreadInv, Saving, Filled, Goto, Released, history
<1>3. \A u \in Thread : RawInv(u)'
  BY Values DEF JsonStoreInv, TypeOK, ThreadInv, RawInv, Saving, Loaded, Filled, Goto, Released,
         history
<1>4. BackupInv'
  BY Values DEF JsonStoreInv, TypeOK, ThreadInv, BackupInv, BackupsAreHistory, Filled, Goto,
         Released, history
<1>5. Durable'
  <2>1. UNCHANGED <<file, cache, synced>> /\ lock' = Released(t) /\ Of[t] \in Repo
    BY Values DEF Filled, history
  <2>2. synced[Of[t]] => file = cache[Of[t]]
    <3>1. raw[t] \in Contents /\ cache[Of[t]] \in Contents /\ (synced[Of[t]] => raw[t] = file)
      BY <2>1 DEF JsonStoreInv, TypeOK, RawInv, Loaded, Filled
    <3>2. \A k \in Key : raw[t][k] = cache[Of[t]][k]
      BY DEF Filled, ToFill
    <3>3. raw[t] = cache[Of[t]]
      BY <3>1, <3>2 DEF Contents
    <3> QED
      BY <3>1, <3>3
  <2>3. \A r \in Repo \ {Of[t]} : lock'[r] = lock[r]
    BY <2>1, LockReleased DEF JsonStoreInv
  <2> QED
    BY <2>1, <2>2, <2>3 DEF JsonStoreInv, Durable, Loaded
<1> QED
  BY <1>1, <1>2, <1>3, <1>4, <1>5 DEF JsonStoreInv

LEMMA LoadFailsKeeps ==
  ASSUME JsonStoreInv, NEW t \in Thread, LoadFails(t)
  PROVE  JsonStoreInv'
<1>1. TypeOK'
  <2>1. lock' \in [Repo -> Thread \cup {NoThread}]
    BY LockReleased DEF JsonStoreInv, LoadFails
  <2>2. synced' \in [Repo -> BOOLEAN] /\ faults' \in Nat
    BY Values DEF JsonStoreInv, TypeOK, LoadFails, Fault
  <2> QED
    BY <2>1, <2>2, Returned DEF JsonStoreInv, TypeOK, LoadFails
<1>2. \A u \in Thread : ThreadInv(u)'
  BY Values DEF JsonStoreInv, TypeOK, ThreadInv, Saving, LoadFails, Fault, Return, Released
<1>3. \A u \in Thread : RawInv(u)'
  BY Values DEF JsonStoreInv, TypeOK, ThreadInv, RawInv, Saving, Loaded, LoadFails, Fault, Return,
         Released
<1>4. BackupInv'
  BY Values DEF JsonStoreInv, TypeOK, ThreadInv, BackupInv, BackupsAreHistory, LoadFails, Fault,
         Return, Released
<1>5. Durable'
  BY Values DEF JsonStoreInv, TypeOK, ThreadInv, RawInv, Durable, Loaded, LoadFails, Fault,
         Return, Released
<1> QED
  BY <1>1, <1>2, <1>3, <1>4, <1>5 DEF JsonStoreInv

LEMMA GetKeeps ==
  ASSUME JsonStoreInv, NEW t \in Thread, Get(t)
  PROVE  JsonStoreInv'
<1>1. TypeOK'
  BY Values DEF JsonStoreInv, TypeOK, PC, Get, Return, locks, history
<1>2. \A u \in Thread : ThreadInv(u)'
  BY Values DEF JsonStoreInv, TypeOK, ThreadInv, Saving, Get, Return, locks, history
<1>3. \A u \in Thread : RawInv(u)'
  BY Values DEF JsonStoreInv, TypeOK, ThreadInv, RawInv, Saving, Loaded, Get, Return, locks,
         history
<1>4. BackupInv'
  BY Values DEF JsonStoreInv, TypeOK, ThreadInv, BackupInv, BackupsAreHistory, Get, Return, locks,
         history
<1>5. Durable'
  BY Values DEF JsonStoreInv, TypeOK, ThreadInv, RawInv, Durable, Loaded, Get, Return, locks,
         history
<1> QED
  BY <1>1, <1>2, <1>3, <1>4, <1>5 DEF JsonStoreInv

LEMMA ReloadKeeps ==
  ASSUME JsonStoreInv, NEW t \in Thread, Reload(t)
  PROVE  JsonStoreInv'
<1>1. TypeOK'
  <2>1. cache' \in [Repo -> Contents \cup {Unloaded}]
    BY Values DEF JsonStoreInv, TypeOK, Reload
  <2> QED
    BY <2>1, Returned DEF JsonStoreInv, TypeOK, Reload, locks, history
<1>2. \A u \in Thread : ThreadInv(u)'
  BY Values DEF JsonStoreInv, TypeOK, ThreadInv, Saving, Reload, Return, locks, history
<1>3. \A u \in Thread : RawInv(u)'
  BY Values DEF JsonStoreInv, TypeOK, ThreadInv, RawInv, Saving, Loaded, Reload, Return, locks,
         history
<1>4. BackupInv'
  BY Values DEF JsonStoreInv, TypeOK, ThreadInv, BackupInv, BackupsAreHistory, Reload, Return,
         locks, history
<1>5. Durable'
  BY Values DEF JsonStoreInv, TypeOK, ThreadInv, RawInv, Durable, Loaded, Reload, Return, locks,
         history
<1> QED
  BY <1>1, <1>2, <1>3, <1>4, <1>5 DEF JsonStoreInv

LEMMA ChangeCacheKeeps ==
  ASSUME JsonStoreInv, NEW t \in Thread, ChangeCache(t)
  PROVE  JsonStoreInv'
<1>1. Of[t] \in Repo /\ op[t] \in Op /\ pc[t] = "run" /\ lock[Of[t]] = NoThread /\ op[t].kind \in Change
  BY Values DEF JsonStoreInv, TypeOK, ThreadInv, ChangeCache
<1>2. cache[Of[t]] # Unloaded => Changed(op[t], cache[Of[t]]) \in Contents
  BY <1>1, ChangedIsContents DEF JsonStoreInv, TypeOK
<1>3. TypeOK'
  <2>1. cache' \in [Repo -> Contents \cup {Unloaded}] /\ synced' \in [Repo -> BOOLEAN]
        /\ lock' \in [Repo -> Thread \cup {NoThread}]
    BY <1>1, <1>2 DEF JsonStoreInv, TypeOK, ChangeCache, Loaded
  <2>2. /\ pc' \in [Thread -> PC] /\ op' \in [Thread -> Op \cup {NoOp}]
        /\ raw' \in [Thread -> Contents] /\ index' \in [Thread -> 0..BackupCount]
    <3>1. CASE Return(t)
      BY <3>1, Returned DEF JsonStoreInv
    <3>2. CASE ~Return(t)
      BY <1>1, <1>2, <3>2 DEF JsonStoreInv, TypeOK, ChangeCache, Loaded, Goto, PC
    <3> QED
      BY <3>1, <3>2
  <2> QED
    BY <2>1, <2>2 DEF JsonStoreInv, TypeOK, ChangeCache
<1>4. \A u \in Thread : ThreadInv(u)'
  BY Values DEF JsonStoreInv, TypeOK, ThreadInv, Saving, ChangeCache, Return, Goto
<1>5. \A u \in Thread : RawInv(u)'
  <2>1. /\ UNCHANGED file
        /\ \A u \in Thread \ {t} : pc'[u] = pc[u] /\ op'[u] = op[u] /\ raw'[u] = raw[u]
        /\ \A r \in Repo \ {Of[t]} : cache'[r] = cache[r] /\ synced'[r] = synced[r]
    BY <1>1 DEF JsonStoreInv, TypeOK, ChangeCache, Return, Goto
  <2>2. ASSUME NEW u \in Thread \ {t}
        PROVE  RawInv(u)'
    <3>1. CASE Of[u] = Of[t]
      BY <1>1, <2>1, <3>1, OneHolder DEF RawInv
    <3>2. CASE Of[u] # Of[t]
      BY <2>1, <3>2, Values DEF JsonStoreInv, RawInv, Loaded
    <3> QED
      BY <3>1, <3>2
  <2>3. CASE pc'[t] = "save"
    <3>1. /\ Loaded(Of[t]) /\ raw'[t] = Changed(op[t], cache[Of[t]])
          /\ op'[t] = op[t] /\ synced'[Of[t]] = synced[Of[t]]
      BY <1>1, <2>3 DEF JsonStoreInv, TypeOK, ChangeCache, Return
    <3>2. synced[Of[t]] /\ file # NoFile => file = cache[Of[t]]
      BY <1>1, <3>1 DEF JsonStoreInv, Durable
    <3>3. cache[Of[t]] \in Contents /\ op[t].value \in Value /\ Absent \notin Value
      BY <1>1, <3>1, Values DEF JsonStoreInv, TypeOK, Loaded, Op
    <3>4. \A k \in Key : cache[Of[t]][k] # Absent /\ raw'[t][k] = Absent =>
            op[t].kind = "delete" /\ op[t].key = k
      BY <3>1, <3>3 DEF Changed, Contents
    <3>5. ASSUME synced'[Of[t]], file' # NoFile, NEW k \in Key, file'[k] # Absent, raw'[t][k] = Absent
          PROVE  op'[t].kind = "delete" /\ op'[t].key = k
      <4>1. file = cache[Of[t]] /\ file[k] # Absent
        BY <2>1, <3>1, <3>2, <3>5
      <4> QED
        BY <3>1, <3>4, <3>5, <4>1
    <3> QED
      BY <2>2, <2>3, <3>5 DEF RawInv
  <2>4. pc'[t] \in {"save", "idle"}
    BY DEF JsonStoreInv, TypeOK, ChangeCache, Return, Goto
  <2> QED
    BY <2>2, <2>3, <2>4 DEF RawInv, Saving
<1>6. BackupInv'
  BY Values DEF JsonStoreInv, TypeOK, ThreadInv, BackupInv, BackupsAreHistory, ChangeCache,
         Return, Goto
<1>7. Durable'
  BY Values DEF JsonStoreInv, TypeOK, ThreadInv, RawInv, Durable, Loaded, ChangeCache, Return,
         Goto
<1> QED
  BY <1>3, <1>4, <1>5, <1>6, <1>7 DEF JsonStoreInv

LEMMA FlushKeeps ==
  ASSUME JsonStoreInv, NEW t \in Thread, Flush(t)
  PROVE  JsonStoreInv'
<1>1. Of[t] \in Repo /\ op[t] \in Op /\ op[t].kind = "flush" /\ op[t].kind \notin Change /\ pc[t] = "run"
  BY Values DEF JsonStoreInv, TypeOK, ThreadInv, Flush, Change
<1>2. TypeOK'
  <2>1. /\ pc' \in [Thread -> PC] /\ op' \in [Thread -> Op \cup {NoOp}]
        /\ raw' \in [Thread -> Contents] /\ index' \in [Thread -> 0..BackupCount]
    <3>1. CASE Return(t)
      BY <3>1, Returned DEF JsonStoreInv
    <3>2. CASE ~Return(t)
      BY <1>1, <3>2 DEF JsonStoreInv, TypeOK, Flush, Loaded, Goto, PC
    <3> QED
      BY <3>1, <3>2
  <2> QED
    BY <2>1 DEF JsonStoreInv, TypeOK, Flush, locks, history
<1>3. \A u \in Thread : ThreadInv(u)'
  BY Values DEF JsonStoreInv, TypeOK, ThreadInv, Saving, Flush, Return, Goto, locks, history
<1>4. \A u \in Thread : RawInv(u)'
  <2>1. /\ UNCHANGED <<file, cache, synced>>
        /\ \A u \in Thread \ {t} : pc'[u] = pc[u] /\ op'[u] = op[u] /\ raw'[u] = raw[u]
    BY DEF JsonStoreInv, TypeOK, Flush, Return, Goto, history
  <2>2. pc'[t] = "idle" \/ (pc'[t] = "save" /\ op'[t].kind \notin Change)
    BY <1>1 DEF JsonStoreInv, TypeOK, Flush, Return, Goto
  <2> QED
    BY <2>1, <2>2 DEF JsonStoreInv, RawInv, Saving, Loaded
<1>5. BackupInv'
  BY Values DEF JsonStoreInv, TypeOK, ThreadInv, BackupInv, BackupsAreHistory, Flush, Return,
         Goto, locks, history
<1>6. Durable'
  BY Values DEF JsonStoreInv, TypeOK, ThreadInv, RawInv, Durable, Loaded, Flush, Return, Goto,
         locks, history
<1> QED
  BY <1>2, <1>3, <1>4, <1>5, <1>6 DEF JsonStoreInv

LEMMA LockFileKeeps ==
  ASSUME JsonStoreInv, NEW t \in Thread, LockFile(t)
  PROVE  JsonStoreInv'
<1>1. TypeOK'
  BY Values DEF JsonStoreInv, TypeOK, PC, LockFile, Goto, history
<1>2. \A u \in Thread : ThreadInv(u)'
  BY Values DEF JsonStoreInv, TypeOK, ThreadInv, Saving, LockFile, Goto, history
<1>3. \A u \in Thread : RawInv(u)'
  BY Values DEF JsonStoreInv, TypeOK, ThreadInv, RawInv, Saving, Loaded, LockFile, Goto, history
<1>4. BackupInv'
  <2>1. \A u \in Thread : pc[u] \notin {"rotate", "publish"}
    BY Values DEF JsonStoreInv, ThreadInv, LockFile
  <2>2. /\ UNCHANGED <<file, backup, rotated, published>> /\ flock = NoThread /\ flock' # NoThread
        /\ \A u \in Thread \ {t} : pc'[u] = pc[u]
        /\ \/ pc'[t] = "rotate" /\ file # NoFile /\ index'[t] = BackupCount
           \/ pc'[t] = "publish" /\ file = NoFile
    BY Values DEF JsonStoreInv, TypeOK, LockFile, Goto, history
  <2>3. rotated => \A b \in Backup : backup[b] = published[b]
    BY <2>2 DEF JsonStoreInv, BackupInv, BackupsAreHistory
  <2>4. \A b \in Backup : ~(b > BackupCount)
    BY Values DEF Backup
  <2> QED
    BY <2>1, <2>2, <2>3, <2>4 DEF JsonStoreInv, BackupInv, BackupsAreHistory
<1>5. Durable'
  BY Values DEF JsonStoreInv, TypeOK, ThreadInv, RawInv, Durable, Loaded, LockFile, Goto, history
<1> QED
  BY <1>1, <1>2, <1>3, <1>4, <1>5 DEF JsonStoreInv

LEMMA RotateKeeps ==
  ASSUME JsonStoreInv, NEW t \in Thread, Rotate(t)
  PROVE  JsonStoreInv'
<1> DEFINE i == index[t]
<1>1. /\ pc[t] = "rotate" /\ flock = t /\ file \in Contents /\ file # NoFile /\ i \in Backup
      /\ backup \in [Backup -> Contents \cup {NoFile, Torn}]
  BY Values DEF JsonStoreInv, TypeOK, ThreadInv, Rotate
<1>2. /\ UNCHANGED <<file, flock, lock, cache, op, raw, calls, faults, rotated, published, synced>>
      /\ backup' = Rotated(i) /\ index' = [index EXCEPT ![t] = i - 1]
      /\ pc' = [pc EXCEPT ![t] = IF i = 1 THEN "publish" ELSE "rotate"]
  BY DEF Rotate, Goto, locks, history
<1>3. /\ i \in Nat /\ i >= 1 /\ i <= BackupCount /\ i - 1 \in 0..BackupCount
      /\ i # 1 => i - 1 \in Backup
  BY <1>1, Values DEF Backup
<1>4. /\ index'[t] = i - 1 /\ pc'[t] = (IF i = 1 THEN "publish" ELSE "rotate")
      /\ \A u \in Thread \ {t} : pc'[u] = pc[u] /\ index'[u] = index[u]
      /\ index' \in [Thread -> 0..BackupCount] /\ pc' \in [Thread -> PC]
  BY <1>2, <1>3 DEF JsonStoreInv, TypeOK, PC
<1>5. \A u \in Thread \ {t} : pc[u] \notin {"rotate", "publish"}
  BY <1>1 DEF JsonStoreInv, ThreadInv
<1> HIDE DEF i
<1>6. TypeOK'
  <2>1. backup' \in [Backup -> Contents \cup {NoFile, Torn}]
    BY <1>1, <1>2, <1>3 DEF Rotated
  <2> QED
    BY <1>2, <1>4, <2>1 DEF JsonStoreInv, TypeOK
<1>7. \A u \in Thread : ThreadInv(u)'
  <2>1. ThreadInv(t)'
    BY <1>1, <1>2, <1>3, <1>4 DEF JsonStoreInv, ThreadInv, Saving
  <2> QED
    BY <1>2, <1>4, <2>1 DEF JsonStoreInv, ThreadInv, Saving
<1>8. \A u \in Thread : RawInv(u)'
  BY <1>1, <1>2, <1>4 DEF JsonStoreInv, RawInv, Saving, Loaded
<1>9. BackupInv'
  <2>1. rotated => \A b \in Backup : backup[b] = IF b > i THEN published[b - 1] ELSE published[b]
    BY <1>1 DEF JsonStoreInv, BackupInv, i
  <2>2. CASE i = 1
    <3>1. backup' = [backup EXCEPT ![1] = file] /\ pc'[t] = "publish"
      BY <1>2, <1>4, <2>2 DEF Rotated
    <3>2. backup'[1] = file /\ (rotated => \A b \in Backup : backup'[b] = IF b = 1 THEN file ELSE published[b - 1])
      BY <1>1, <2>1, <2>2, <3>1, Values DEF Backup
    <3> QED
      BY <1>1, <1>2, <1>4, <1>5, <3>1, <3>2, Values DEF JsonStoreInv, BackupInv, BackupsAreHistory
  <2>3. CASE i # 1
    <3>1. backup' = (IF backup[i - 1] = NoFile THEN backup ELSE [backup EXCEPT ![i] = backup[i - 1]])
          /\ pc'[t] = "rotate"
      BY <1>2, <1>4, <2>3 DEF Rotated
    <3>2. rotated => backup[i - 1] = published[i - 1] /\ backup[i] = published[i]
      BY <1>1, <1>3, <2>1, <2>3
    <3>3. published[i - 1] = NoFile => published[i] = NoFile
      BY <1>1, <2>3 DEF JsonStoreInv, BackupInv
    <3>4. rotated => backup'[i] = published[i - 1] /\ \A b \in Backup \ {i} : backup'[b] = backup[b]
      BY <1>1, <3>1, <3>2, <3>3
    <3>5. \A b \in Backup \ {i} : b > i - 1 <=> b > i
      BY <1>3 DEF Backup
    <3>6. rotated => \A b \in Backup : backup'[b] = IF b > i - 1 THEN published[b - 1] ELSE published[b]
      BY <1>3, <2>1, <3>4, <3>5
    <3> QED
      BY <1>1, <1>2, <1>4, <1>5, <3>1, <3>6, Values DEF JsonStoreInv, BackupInv, BackupsAreHistory
  <2> QED
    BY <2>2, <2>3
<1>10. Durable'
  BY <1>2 DEF JsonStoreInv, Durable, Loaded
<1> QED
  BY <1>6, <1>7, <1>8, <1>9, <1>10 DEF JsonStoreInv

LEMMA PublishKeeps ==
  ASSUME JsonStoreInv, NEW t \in Thread, Publish(t)
  PROVE  JsonStoreInv'
<1>1. /\ pc[t] = "publish" /\ flock = t /\ file' = raw[t] /\ flock' = NoThread /\ lock' = Released(t)
      /\ Return(t) /\ UNCHANGED <<backup, cache, calls, faults, rotated>>
  BY DEF Publish, JsonStoreInv, ThreadInv
<1>2. /\ pc'[t] = "idle" /\ op'[t] = NoOp /\ raw[t] \in Contents /\ Of[t] \in Repo
      /\ \A u \in Thread \ {t} : /\ pc'[u] = pc[u] /\ op'[u] = op[u] /\ raw'[u] = raw[u]
                                 /\ pc[u] \notin {"rotate", "publish"}
  BY <1>1, Returned, Values DEF JsonStoreInv, TypeOK, ThreadInv
<1>3. TypeOK'
  <2>1. published' \in [Backup -> Contents \cup {NoFile}]
    <3>1. \A b \in Backup \ {1} : b - 1 \in Backup
      BY Values DEF Backup
    <3> QED
      BY <3>1 DEF JsonStoreInv, TypeOK, Publish
  <2>2. synced' \in [Repo -> BOOLEAN]
    BY DEF JsonStoreInv, TypeOK, Publish
  <2>3. lock' \in [Repo -> Thread \cup {NoThread}]
    BY <1>1, LockReleased DEF JsonStoreInv
  <2> QED
    BY <1>1, <1>2, <2>1, <2>2, <2>3, Returned DEF JsonStoreInv, TypeOK
<1>4. \A u \in Thread : ThreadInv(u)'
  BY Values DEF JsonStoreInv, TypeOK, ThreadInv, Saving, Publish, Released, Return
<1>5. \A u \in Thread : RawInv(u)'
  <2>1. ASSUME NEW u \in Thread \ {t}, synced'[Of[u]], pc[u] = "fill" \/ (pc[u] \in Saving /\ op[u].kind \in Change)
        PROVE  FALSE
    <3>1. Of[u] = Of[t]
      BY <2>1, Values DEF Publish
    <3>2. op[t].kind = "flush" => lock[Of[t]] = NoThread
      BY <1>2, <2>1, <3>1 DEF Publish
    <3>3. op[t].kind # "flush" => lock[Of[t]] = t
      BY <1>1 DEF JsonStoreInv, ThreadInv, Saving
    <3> QED
      BY <2>1, <3>1, <3>2, <3>3, OneHolder
  <2>2. \A u \in Thread : pc[u] = "fill" => Loaded(Of[u])
    BY DEF JsonStoreInv, RawInv
  <2> QED
    BY <1>1, <1>2, <2>1, <2>2 DEF RawInv, Loaded, Saving
<1>6. BackupInv'
  <2>1. \A u \in Thread : pc'[u] \notin {"rotate", "publish"}
    BY <1>2
  <2>2. published' = IF file = NoFile THEN published
                     ELSE [b \in Backup |-> IF b = 1 THEN file ELSE published[b - 1]]
    BY DEF Publish
  <2>3. rotated => \A b \in Backup : backup[b] = published'[b]
    BY <1>1, <2>2 DEF JsonStoreInv, BackupInv
  <2>4. ASSUME NEW b \in Backup \ {1}, published'[b - 1] = NoFile
        PROVE  published'[b] = NoFile
    <3>1. b - 1 \in Backup /\ b \in Nat
      BY Values DEF Backup
    <3>2. CASE file = NoFile
      BY <2>2, <2>4, <3>2 DEF JsonStoreInv, BackupInv
    <3>3. CASE file # NoFile
      <4>1. published'[b - 1] = IF b - 1 = 1 THEN file ELSE published[(b - 1) - 1]
        BY <2>2, <3>1, <3>3
      <4>2. published'[b] = published[b - 1] /\ b - 1 # 1
        BY <2>2, <2>4, <3>3, <4>1
      <4> QED
        BY <2>4, <3>1, <4>1, <4>2 DEF JsonStoreInv, BackupInv
    <3> QED
      BY <3>2, <3>3
  <2> QED
    BY <1>1, <2>1, <2>3, <2>4 DEF BackupInv, BackupsAreHistory
<1>7. Durable'
  BY Values DEF JsonStoreInv, TypeOK, ThreadInv, RawInv, Durable, Loaded, Publish, Released,
         Return
<1> QED
  BY <1>3, <1>4, <1>5, <1>6, <1>7 DEF JsonStoreInv

LEMMA SaveFailsKeeps ==
  ASSUME JsonStoreInv, NEW t \in Thread, SaveFails(t)
  PROVE  JsonStoreInv'
<1>1. TypeOK'
  <2>1. lock' \in [Repo -> Thread \cup {NoThread}]
    BY LockReleased DEF JsonStoreInv, SaveFails
  <2>2. synced' \in [Repo -> BOOLEAN] /\ faults' \in Nat /\ flock' \in Thread \cup {NoThread}
    BY Values DEF JsonStoreInv, TypeOK, SaveFails, Fault
  <2>3. backup' \in [Backup -> Contents \cup {NoFile, Torn}] /\ rotated' \in BOOLEAN
    <3>1. pc[t] = "rotate" => index[t] \in Backup
      BY DEF JsonStoreInv, ThreadInv
    <3> QED
      BY <3>1 DEF JsonStoreInv, TypeOK, SaveFails, CutShort
  <2> QED
    BY <2>1, <2>2, <2>3, Returned DEF JsonStoreInv, TypeOK, SaveFails
<1>2. \A u \in Thread : ThreadInv(u)'
  BY Values DEF JsonStoreInv, TypeOK, ThreadInv, Saving, SaveFails, Fault, CutShort, Released,
         Return
<1>3. \A u \in Thread : RawInv(u)'
  BY Values DEF JsonStoreInv, TypeOK, ThreadInv, RawInv, Saving, Loaded, SaveFails, Fault,
         CutShort, Released, Return
<1>4. BackupInv'
  <2>1. /\ pc'[t] = "idle" /\ \A u \in Thread \ {t} : pc'[u] = pc[u] /\ index'[u] = index[u]
        /\ UNCHANGED <<file, published>>
    BY Returned DEF SaveFails, JsonStoreInv
  <2>2. CASE pc[t] = "save"
    <3>1. UNCHANGED <<backup, flock, rotated>>
      BY <2>2 DEF SaveFails, CutShort, JsonStoreInv, TypeOK, ThreadInv
    <3> QED
      BY <2>1, <3>1, BackupsKept DEF JsonStoreInv
  <2>3. CASE pc[t] \in {"rotate", "publish"}
    <3>1. ~rotated' /\ \A u \in Thread : pc'[u] \notin {"rotate", "publish"}
      BY <2>1, <2>3 DEF SaveFails, CutShort, JsonStoreInv, ThreadInv
    <3> QED
      BY <2>1, <3>1 DEF JsonStoreInv, BackupInv, BackupsAreHistory
  <2> QED
    BY <2>2, <2>3 DEF SaveFails
<1>5. Durable'
  BY Values DEF JsonStoreInv, TypeOK, ThreadInv, RawInv, Durable, Loaded, SaveFails, Fault,
         CutShort, Released, Return
<1> QED
  BY <1>1, <1>2, <1>3, <1>4, <1>5 DEF JsonStoreInv

LEMMA CrashKeeps ==
  ASSUME JsonStoreInv, NEW r \in Repo, Crash(r)
  PROVE  JsonStoreInv'
<1> DEFINE mine == {t \in Thread : Of[t] = r}
<1>1. /\ flock \in mine => CutShort(flock)
      /\ flock \notin mine => UNCHANGED <<backup, rotated>>
      /\ flock' = (IF flock \in mine THEN NoThread ELSE flock)
      /\ UNCHANGED <<file, calls, published, synced>>
  BY DEF Crash
<1>2. \A t \in Thread : t \in mine => pc'[t] = "idle"
  BY DEF Crash
<1>3. \A t \in Thread \ mine : pc'[t] = pc[t] /\ index'[t] = index[t]
  BY DEF Crash
<1>4. TypeOK'
  <2>1. /\ lock' \in [Repo -> Thread \cup {NoThread}] /\ cache' \in [Repo -> Contents \cup {Unloaded}]
        /\ faults' \in Nat /\ flock' \in Thread \cup {NoThread}
    BY Values DEF JsonStoreInv, TypeOK, Crash, Fault
  <2>2. backup' \in [Backup -> Contents \cup {NoFile, Torn}] /\ rotated' \in BOOLEAN
    <3>1. \A t \in Thread : pc[t] = "rotate" => index[t] \in Backup
      BY DEF JsonStoreInv, ThreadInv
    <3> QED
      BY <1>1, <3>1 DEF JsonStoreInv, TypeOK, CutShort
  <2>3. /\ pc' \in [Thread -> PC] /\ op' \in [Thread -> Op \cup {NoOp}] /\ raw' \in [Thread -> Contents]
        /\ index' \in [Thread -> 0..BackupCount]
    <3>1. "idle" \in PC /\ 0 \in 0..BackupCount /\ Empty \in Contents
      BY Values DEF PC
    <3> QED
      BY <3>1 DEF JsonStoreInv, TypeOK, Crash
  <2> QED
    BY <1>1, <2>1, <2>2, <2>3 DEF JsonStoreInv, TypeOK
<1>5. \A u \in Thread : ThreadInv(u)'
  BY Values DEF JsonStoreInv, TypeOK, ThreadInv, Saving, Crash, Fault, CutShort
<1>6. \A u \in Thread : RawInv(u)'
  BY Values DEF JsonStoreInv, TypeOK, ThreadInv, RawInv, Saving, Loaded, Crash, Fault, CutShort
<1>7. BackupInv'
  <2>1. CASE flock \notin mine
    <3>1. UNCHANGED <<file, backup, flock, rotated, published>>
      BY <1>1, <2>1
    <3> QED
      BY <1>2, <1>3, <3>1, BackupsKept DEF JsonStoreInv
  <2>2. CASE flock \in mine
    <3>1. pc[flock] \in {"rotate", "publish"} /\ \A t \in Thread : t # flock => pc[t] \notin {"rotate", "publish"}
      BY <2>2 DEF JsonStoreInv, ThreadInv
    <3>2. ~rotated'
      BY <1>1, <2>2, <3>1 DEF CutShort
    <3>3. \A t \in Thread : pc'[t] \notin {"rotate", "publish"}
      BY <1>2, <1>3, <2>2, <3>1
    <3> QED
      BY <1>1, <3>2, <3>3 DEF JsonStoreInv, BackupInv, BackupsAreHistory
  <2> QED
    BY <2>1, <2>2
<1>8. Durable'
  BY Values DEF JsonStoreInv, TypeOK, ThreadInv, RawInv, Durable, Loaded, Crash, Fault, CutShort
<1> QED
  BY <1>4, <1>5, <1>6, <1>7, <1>8 DEF JsonStoreInv

(***************************************************************************)
(* Theorems                                                                *)
(***************************************************************************)

LEMMA StoreBegins ==
  ASSUME Init
  PROVE  JsonStoreInv
<1>1. TypeOK
  <2>1. 0 \in 0..BackupCount /\ "idle" \in PC /\ Empty \in Contents /\ 0 \in Nat
    BY Values DEF PC
  <2> QED
    BY <2>1 DEF Init, TypeOK
<1>2. \A t \in Thread : pc[t] = "idle" /\ op[t] = NoOp /\ flock # t
  BY Values DEF Init
<1>3. \A t \in Thread : ThreadInv(t) /\ RawInv(t)
  BY <1>2 DEF ThreadInv, RawInv, Saving
<1>4. BackupInv
  BY <1>2 DEF Init, BackupInv, BackupsAreHistory
<1>5. Durable
  BY DEF Init, Durable, Loaded
<1> QED
  BY <1>1, <1>3, <1>4, <1>5 DEF JsonStoreInv

LEMMA StoreSteps ==
  ASSUME JsonStoreInv, Next
  PROVE  JsonStoreInv'
BY CallKeeps, EnsureLoadedKeeps, LockToLoadKeeps, ReadFileKeeps, FillOneKeeps, FilledKeeps,
   LoadFailsKeeps, GetKeeps, ReloadKeeps, ChangeCacheKeeps, FlushKeeps, LockFileKeeps,
   RotateKeeps, PublishKeeps, SaveFailsKeeps, CrashKeeps DEF Next, InCall

LEMMA StoreKept ==
  ASSUME JsonStoreInv, UNCHANGED vars
  PROVE  JsonStoreInv'
<1>1. TypeOK' = TypeOK /\ BackupInv' = BackupInv /\ Durable' = Durable
  BY DEF vars, TypeOK, BackupInv, BackupsAreHistory, Durable, Loaded
<1>2. \A t \in Thread : ThreadInv(t)' = ThreadInv(t) /\ RawInv(t)' = RawInv(t)
  BY DEF vars, ThreadInv, RawInv, Loaded
<1> QED
  BY <1>1, <1>2 DEF JsonStoreInv

THEOREM StoresInv == Spec => []JsonStoreInv
<1>1. Init => JsonStoreInv
  BY StoreBegins
<1>2. JsonStoreInv /\ [Next]_vars => JsonStoreInv'
  BY StoreSteps, StoreKept
<1> QED
  BY <1>1, <1>2, PTL DEF Spec

\* Files, backups, caches, locks and calls keep their types, whatever fails or crashes.
THEOREM TypeCorrect == Spec => []TypeOK
<1>1. JsonStoreInv => TypeOK
  BY DEF JsonStoreInv
<1> QED
  BY <1>1, StoresInv, PTL

\* _save replaces the file only when bak.1 holds what it held.
THEOREM PreviousAlwaysKept == Spec => []PreviousKept
<1>1. JsonStoreInv => PreviousKept
  BY DEF JsonStoreInv, ThreadInv, BackupInv, PreviousKept
<1> QED
  BY <1>1, StoresInv, PTL

\* Between saves the backups are the history of the file, unless a rotation was cut short.
THEOREM BackupsAlwaysHistory == Spec => []BackupsAreHistory
<1>1. JsonStoreInv => BackupsAreHistory
  BY DEF JsonStoreInv, BackupInv
<1> QED
  BY <1>1, StoresInv, PTL

\* An instance that nothing parted from the file has in the file what it has in memory.
THEOREM AlwaysDurable == Spec => []Durable
<1>1. JsonStoreInv => Durable
  BY DEF JsonStoreInv
<1> QED
  BY <1>1, StoresInv, PTL

\* Only a delete, and only of its own key, removes an entity the file had.
THEOREM OnlyDeletesRemove == Spec => RemovedByDelete
<1>1. ASSUME JsonStoreInv, Next, NEW t \in Thread, NEW k \in Key,
             pc[t] = "publish", pc'[t] = "idle", op[t].kind \in Change, synced[Of[t]],
             file \notin {NoFile, file'}, file[k] # Absent, file'[k] = Absent
      PROVE  op[t].kind = "delete" /\ op[t].key = k
  <2>1. flock = t
    BY <1>1 DEF JsonStoreInv, ThreadInv
  <2>2. file' = raw[t]
    <3>1. ASSUME NEW u \in Thread, Publish(u)
          PROVE  u = t
      BY <1>1, <2>1, <3>1 DEF JsonStoreInv, ThreadInv, Publish
    <3>2. \E u \in Thread : Publish(u)
      <4>1. file' # file
        BY <1>1
      <4> QED
        BY <1>1, <4>1 DEF Next, InCall, Call, EnsureLoaded, LockToLoad, ReadFile, FillOne, Filled,
           LoadFails, Get, Reload, ChangeCache, Flush, LockFile, Rotate, SaveFails, Crash
    <3> QED
      BY <3>1, <3>2 DEF Publish
  <2> QED
    BY <1>1, <2>2 DEF JsonStoreInv, RawInv, Saving
<1>2. JsonStoreInv /\ [Next]_vars =>
        [\A t \in Thread, k \in Key :
           pc[t] = "publish" /\ pc'[t] = "idle" /\ op[t].kind \in Change /\ synced[Of[t]]
             /\ file \notin {NoFile, file'} /\ file[k] # Absent /\ file'[k] = Absent
           => op[t].kind = "delete" /\ op[t].key = k]_vars
  BY <1>1
<1> QED
  BY <1>2, StoresInv, PTL DEF Spec, RemovedByDelete

=============================================================================
