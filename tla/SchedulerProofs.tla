-------------------------- MODULE SchedulerProofs --------------------------
(***************************************************************************)
(* What a tick runs and in which order, for any jobs, intervals, times and *)
(* registrations: a tick walks the entries of the dict, and what it has    *)
(* passed was either run or not due.                                       *)
(***************************************************************************)
EXTENDS Scheduler, SumLemmas

Outcome == {"none", "returned", "raised", "changed"}

TypeOK ==
  /\ jobs \in Seq(Job \cup {Gone})
  /\ entries \in Seq(Nat)
  /\ room \in Int
  /\ pc \in {"idle", "next", "job"}
  /\ now \in Time
  /\ pos \in Nat
  /\ left \in Int
  /\ used \in Int
  /\ running \in Nat
  /\ results \in Seq(Nat)
  /\ touched \in BOOLEAN
  /\ outcome \in Outcome

\* The dict holds the jobs that were not cancelled, in the order of registration.
EntriesInv ==
  /\ \A k \in Live : entries[k] \in 1..Len(jobs) /\ jobs[entries[k]] # Gone
  /\ \A j, k \in Live : j < k => entries[j] < entries[k]

\* Runs that both returned are an interval apart; there is no run before the last one
\* without a last one.
SpacedInv ==
  \A n \in DOMAIN jobs :
    jobs[n] # Gone /\ jobs[n].prev # Never =>
      jobs[n].last # Never /\ jobs[n].last - jobs[n].prev >= jobs[n].interval

\* The job whose function runs is due, unless it was cancelled since.
RunningInv ==
  pc = "job" =>
    /\ running \in DOMAIN jobs
    /\ jobs[running] = Gone \/ Due(jobs[running], now)

\* The tick stands at pos, and the registry is as it found it.
Walking == pc \in {"next", "job"} /\ ~touched

\* What the tick has passed was run, or was not due, or is running; what it has run
\* it has passed.
PassedInv ==
  Walking =>
    /\ \A k \in Live : k <= pos =>
         \/ entries[k] \in Ran
         \/ ~Due(jobs[entries[k]], now)
         \/ pc = "job" /\ k = pos
    /\ \A n \in Ran : \E k \in Live : k <= pos /\ entries[k] = n /\ (pc = "job" => k < pos)
    /\ pc = "job" => pos \in Live /\ running = entries[pos]

\* Only between ticks is there an outcome to speak of.
OutcomeInv == pc # "idle" => outcome = "none"

SchedulerInv ==
  /\ TypeOK
  /\ OutcomeInv
  /\ EntriesInv
  /\ SpacedInv
  /\ RunningInv
  /\ PassedInv
  /\ CleanTickRunsAllDue
  /\ FailedTickStopsInPlace

(***************************************************************************)
(* Registering and cancelling                                              *)
(***************************************************************************)

LEMMA LiveFacts ==
  ASSUME entries \in Seq(Nat)
  PROVE  /\ Live \in SUBSET Nat
         /\ IsFiniteSet(Live)
         /\ Size \in Nat
<1>1. Live \in SUBSET (1..Len(entries))
  BY DEF Live
<1>2. IsFiniteSet(1..Len(entries))
  BY FS_Interval
<1>3. IsFiniteSet(Live)
  BY <1>1, <1>2, FS_Subset
<1>4. Size \in Nat
  BY <1>3, FS_CardinalityType DEF Size
<1> QED
  BY <1>1, <1>3, <1>4

\* What a change of the registry leaves of a tick.
LEMMA RegistryChangedKeeps ==
  ASSUME TypeOK, RegistryChanged
  PROVE  /\ pc' \in {"idle", "next", "job"} /\ now' \in Time /\ pos' \in Nat /\ left' \in Int
         /\ used' \in Int /\ running' \in Nat /\ results' \in Seq(Nat) /\ touched' \in BOOLEAN
         /\ outcome' \in Outcome
         /\ ~Walking'
         /\ pc' = "job" => pc = "job" /\ running' = running /\ now' = now
         /\ outcome' \in {"returned", "raised"} => touched'
         /\ OutcomeInv => OutcomeInv'
<1>1. CASE /\ pc = "job" /\ touched' = TRUE
           /\ UNCHANGED <<pc, iterator, running, results, outcome>>
  BY <1>1 DEF TypeOK, iterator, Walking, OutcomeInv
<1>2. CASE pc = "idle" /\ NoTick /\ outcome' = "none" /\ UNCHANGED pc
  <2>1. 0 \in Time /\ 0 \in Nat /\ 0 \in Int /\ <<>> \in Seq(Nat)
    BY SchedulerAssumption DEF Time
  <2> QED
    BY <1>2, <2>1 DEF NoTick, Outcome, Walking, OutcomeInv
<1> QED
  BY <1>1, <1>2 DEF RegistryChanged

LEMMA RegisterTyped ==
  ASSUME SchedulerInv, NEW i \in JobId, NEW interval \in Interval, Register(i, interval)
  PROVE  TypeOK' /\ EntriesInv'
<1> DEFINE new == [id |-> i, interval |-> interval, last |-> Never, prev |-> Never]
<1>1. TypeOK /\ EntriesInv /\ RegistryChanged
  BY DEF SchedulerInv, Register
<1>2. new \in Job
  BY SchedulerAssumption DEF Job
<1>3. jobs' = Append(jobs, new) /\ jobs \in Seq(Job \cup {Gone}) /\ entries \in Seq(Nat)
  BY <1>1 DEF Register, TypeOK
<1>4. /\ jobs' \in Seq(Job \cup {Gone})
      /\ Len(jobs') = Len(jobs) + 1 /\ Len(jobs) \in Nat
      /\ \A n \in 1..Len(jobs) : jobs'[n] = jobs[n]
      /\ jobs'[Len(jobs) + 1] # Gone
  BY <1>2, <1>3, SchedulerAssumption
<1>5. Size \in Nat
  BY <1>3, LiveFacts
<1>6. PICK old \in Seq(Nat) :
        /\ entries' = Append(old, Len(jobs) + 1)
        /\ \A k \in 1..Len(old) : old[k] # Gap => old[k] \in 1..Len(jobs) /\ jobs[old[k]] # Gone
        /\ \A j, k \in 1..Len(old) : old[j] # Gap /\ old[k] # Gap /\ j < k => old[j] < old[k]
        /\ room' \in Int
  <2>1. CASE room > 0
    <3>1. entries' = Append(entries, Len(jobs) + 1) /\ room' = room - 1
      BY <2>1 DEF Register
    <3>2. \A k \in 1..Len(entries) : entries[k] # Gap => k \in Live
      BY <1>3 DEF Live
    <3>3. \A k \in 1..Len(entries) : entries[k] # Gap =>
            entries[k] \in 1..Len(jobs) /\ jobs[entries[k]] # Gone
      BY <3>2, <1>1 DEF EntriesInv
    <3>4. \A j, k \in 1..Len(entries) :
            entries[j] # Gap /\ entries[k] # Gap /\ j < k => entries[j] < entries[k]
      BY <3>2, <1>1 DEF EntriesInv
    <3>5. room' \in Int
      BY <3>1, <1>1 DEF TypeOK
    <3> QED
      BY <3>1, <3>3, <3>4, <3>5, <1>3
  <2>2. CASE ~(room > 0)
    <3>1. PICK kept \in [1..Size -> Live] :
            /\ Packed(kept)
            /\ entries' = Append([k \in 1..Size |-> entries[kept[k]]], Len(jobs) + 1)
      BY <2>2 DEF Register
    <3> DEFINE old == [k \in 1..Size |-> entries[kept[k]]]
    <3>2. \A k \in 1..Size : kept[k] \in Live /\ entries[kept[k]] \in Nat
      BY <3>1, <1>3 DEF Live
    <3>3. old \in Seq(Nat) /\ Len(old) = Size
      BY <3>2, <1>5
    <3>4. \A k \in 1..Len(old) : old[k] \in 1..Len(jobs) /\ jobs[old[k]] # Gone
      BY <3>2, <3>3, <1>1 DEF EntriesInv
    <3>5. \A j, k \in 1..Len(old) : j < k => old[j] < old[k]
      BY <3>1, <3>2, <3>3, <1>1 DEF EntriesInv, Packed
    <3>6. room' \in Int
      BY <2>2, <1>5 DEF Register, Usable
    <3> QED
      BY <3>1, <3>3, <3>4, <3>5, <3>6
  <2> QED
    BY <2>1, <2>2
<1>7. /\ entries' \in Seq(Nat)
      /\ Len(entries') = Len(old) + 1 /\ Len(old) \in Nat
      /\ \A k \in 1..Len(old) : entries'[k] = old[k]
      /\ entries'[Len(old) + 1] = Len(jobs) + 1
  BY <1>4, <1>6
<1>8. TypeOK'
  BY <1>1, <1>4, <1>6, <1>7, RegistryChangedKeeps DEF TypeOK
<1>9. ASSUME NEW k \in Live'
      PROVE  /\ entries'[k] \in 1..Len(jobs') /\ jobs'[entries'[k]] # Gone
             /\ k \in 1..Len(old) => entries'[k] = old[k] /\ old[k] # Gap /\ old[k] \in 1..Len(jobs)
             /\ k \notin 1..Len(old) => k = Len(old) + 1 /\ entries'[k] = Len(jobs) + 1
  <2>1. k \in 1..(Len(old) + 1) /\ entries'[k] # Gap
    BY <1>7 DEF Live
  <2>2. CASE k \in 1..Len(old)
    <3>1. entries'[k] = old[k] /\ old[k] # Gap
      BY <2>1, <2>2, <1>7
    <3>2. old[k] \in 1..Len(jobs) /\ jobs[old[k]] # Gone
      BY <3>1, <2>2, <1>6
    <3> QED
      BY <3>1, <3>2, <2>2, <1>4
  <2>3. CASE k = Len(old) + 1
    BY <2>3, <1>4, <1>7
  <2> QED
    BY <2>1, <2>2, <2>3, <1>7
<1>10. ASSUME NEW j \in Live', NEW k \in Live', j < k
       PROVE  entries'[j] < entries'[k]
  <2>1. j \in 1..Len(old)
    BY <1>7, <1>9, <1>10
  <2>2. CASE k \in 1..Len(old)
    BY <2>1, <2>2, <1>6, <1>9, <1>10
  <2>3. CASE k \notin 1..Len(old)
    BY <2>1, <2>3, <1>4, <1>9
  <2> QED
    BY <2>2, <2>3
<1> QED
  BY <1>8, <1>9, <1>10 DEF EntriesInv

\* A registration keeps the invariant: the new job is behind all others and never ran.
LEMMA RegisterKeeps ==
  ASSUME SchedulerInv, NEW i \in JobId, NEW interval \in Interval, Register(i, interval)
  PROVE  SchedulerInv'
<1> DEFINE new == [id |-> i, interval |-> interval, last |-> Never, prev |-> Never]
<1>1. TypeOK /\ RegistryChanged /\ SpacedInv /\ RunningInv
  BY DEF SchedulerInv, Register
<1>2. jobs' = Append(jobs, new) /\ jobs \in Seq(Job \cup {Gone})
  BY <1>1 DEF Register, TypeOK
<1>3. /\ Len(jobs) \in Nat /\ DOMAIN jobs = 1..Len(jobs) /\ DOMAIN jobs' = 1..(Len(jobs) + 1)
      /\ \A n \in 1..Len(jobs) : jobs'[n] = jobs[n]
      /\ jobs'[Len(jobs) + 1] = new
  BY <1>2
<1>4. SpacedInv'
  <2> SUFFICES ASSUME NEW n \in DOMAIN jobs', jobs'[n] # Gone, jobs'[n].prev # Never
               PROVE  /\ jobs'[n].last # Never
                      /\ jobs'[n].last - jobs'[n].prev >= jobs'[n].interval
    BY DEF SpacedInv
  <2>1. n # Len(jobs) + 1
    BY <1>3
  <2>2. n \in DOMAIN jobs /\ jobs'[n] = jobs[n]
    BY <2>1, <1>3
  <2> QED
    BY <2>2, <1>1 DEF SpacedInv
<1>5. RunningInv'
  BY <1>1, <1>3, RegistryChangedKeeps DEF RunningInv
<1> QED
  BY <1>1, <1>4, <1>5, RegisterTyped, RegistryChangedKeeps
     DEF SchedulerInv, PassedInv, CleanTickRunsAllDue, FailedTickStopsInPlace

\* A cancellation leaves a gap, and the others as they were.
LEMMA CancelKeeps ==
  ASSUME SchedulerInv, NEW k \in DOMAIN entries, Cancel(k)
  PROVE  SchedulerInv'
<1>1. TypeOK /\ EntriesInv /\ SpacedInv /\ RunningInv /\ RegistryChanged
  BY DEF SchedulerInv, Cancel
<1>2. /\ k \in Live
      /\ entries' = [entries EXCEPT ![k] = Gap]
      /\ jobs' = [jobs EXCEPT ![entries[k]] = Gone]
      /\ room' = room
  BY DEF Cancel
<1>3. /\ jobs \in Seq(Job \cup {Gone}) /\ entries \in Seq(Nat)
      /\ entries[k] \in 1..Len(jobs)
  BY <1>1, <1>2 DEF TypeOK, EntriesInv
<1>4. /\ jobs' \in Seq(Job \cup {Gone}) /\ DOMAIN jobs' = DOMAIN jobs
      /\ Len(jobs') = Len(jobs)
      /\ \A n \in DOMAIN jobs : jobs'[n] = IF n = entries[k] THEN Gone ELSE jobs[n]
  BY <1>2, <1>3
<1>5. /\ entries' \in Seq(Nat) /\ DOMAIN entries' = DOMAIN entries
      /\ \A j \in DOMAIN entries : entries'[j] = IF j = k THEN Gap ELSE entries[j]
  BY <1>2, <1>3 DEF Gap
<1>6. TypeOK'
  BY <1>1, <1>2, <1>4, <1>5, RegistryChangedKeeps DEF TypeOK
<1>7. \A j \in Live' : j \in Live /\ j # k /\ entries'[j] = entries[j]
  BY <1>5 DEF Live
<1>8. \A j \in Live : j # k => entries[j] # entries[k]
  <2> TAKE j \in Live
  <2>1. j \in Nat /\ k \in Nat /\ entries[j] \in Nat /\ entries[k] \in Nat
    BY <1>2, <1>3 DEF Live
  <2> QED
    BY <2>1, <1>1, <1>2 DEF EntriesInv
<1>9. EntriesInv'
  <2>1. ASSUME NEW j \in Live'
        PROVE  entries'[j] \in 1..Len(jobs') /\ jobs'[entries'[j]] # Gone
    <3>1. /\ j \in Live /\ j # k /\ entries'[j] = entries[j]
          /\ entries[j] \in 1..Len(jobs) /\ jobs[entries[j]] # Gone /\ entries[j] # entries[k]
      BY <1>1, <1>7, <1>8 DEF EntriesInv
    <3> QED
      BY <3>1, <1>3, <1>4
  <2> QED
    BY <2>1, <1>1, <1>7 DEF EntriesInv
<1>10. SpacedInv' /\ RunningInv'
  BY <1>1, <1>4, RegistryChangedKeeps DEF SpacedInv, RunningInv
<1> QED
  BY <1>1, <1>6, <1>9, <1>10, RegistryChangedKeeps
     DEF SchedulerInv, PassedInv, CleanTickRunsAllDue, FailedTickStopsInPlace

(***************************************************************************)
(* A tick                                                                  *)
(***************************************************************************)

LEMMA TickKeeps ==
  ASSUME SchedulerInv, NEW time \in Time, Tick(time)
  PROVE  SchedulerInv'
<1>1. TypeOK /\ EntriesInv /\ SpacedInv
  BY DEF SchedulerInv
<1>2. /\ UNCHANGED <<jobs, entries, room>>
      /\ pc' = "next" /\ now' = time /\ pos' = 0 /\ running' = 0 /\ results' = <<>>
      /\ touched' = FALSE /\ outcome' = "none" /\ left' = Size /\ used' = Size
  BY DEF Tick, registry
<1>3. Size \in Nat
  BY <1>1, LiveFacts DEF TypeOK
<1>4. TypeOK'
  <2>1. results' \in Seq(Nat)
    BY <1>2
  <2>2. touched' \in BOOLEAN
    BY <1>2, Zenon
  <2>3. /\ UNCHANGED <<jobs, entries, room>>
        /\ pc' = "next" /\ now' = time /\ pos' = 0 /\ running' = 0
        /\ outcome' = "none" /\ left' = Size /\ used' = Size
    BY <1>2
  <2> QED
    BY <1>1, <1>3, <2>1, <2>2, <2>3 DEF TypeOK, Outcome
<1>5. Live' = Live /\ EntriesInv' /\ SpacedInv'
  BY <1>1, <1>2 DEF Live, EntriesInv, SpacedInv
<1>6. PassedInv'
  <2>1. \A k \in Live' : ~(k <= pos')
    BY <1>2, <1>4 DEF Live, TypeOK
  <2>2. Ran' = {}
    BY <1>2 DEF Ran
  <2> QED
    BY <2>1, <2>2, <1>2 DEF PassedInv
<1> QED
  BY <1>2, <1>4, <1>5, <1>6
     DEF SchedulerInv, OutcomeInv, RunningInv, CleanTickRunsAllDue, FailedTickStopsInPlace

\* The next entry is the first one ahead.
LEMMA NextEntry ==
  ASSUME TypeOK, Ahead # {}
  PROVE  /\ Min(Ahead) \in Live /\ Min(Ahead) > pos
         /\ \A k \in Live : k < Min(Ahead) => k <= pos
<1>1. Ahead \in SUBSET Nat
  BY LiveFacts DEF Ahead, TypeOK
<1>2. \E m \in Ahead : \A n \in Ahead : m <= n
  BY <1>1, LeastNat
<1>3. Min(Ahead) \in Ahead /\ \A n \in Ahead : Min(Ahead) <= n
  BY <1>2 DEF Min
<1>4. \A k \in Live : k \in Nat
  BY LiveFacts DEF TypeOK
<1>5. pos \in Nat
  BY DEF TypeOK
<1> QED
  BY <1>1, <1>3, <1>4, <1>5 DEF Ahead

LEMMA NextJobKeeps ==
  ASSUME SchedulerInv, NextJob
  PROVE  SchedulerInv'
<1> DEFINE m == Min(Ahead)
<1>1. TypeOK /\ EntriesInv /\ SpacedInv /\ PassedInv
  BY DEF SchedulerInv
<1>2. /\ UNCHANGED <<jobs, entries, room, now, used, results, touched, outcome>>
      /\ pc = "next" /\ pos' = m /\ left' = left - 1
      /\ IF Due(jobs[entries[m]], now) THEN pc' = "job" /\ running' = entries[m]
         ELSE pc' = pc /\ running' = running
  BY DEF NextJob, registry
<1>3. m \in Live /\ m > pos /\ \A k \in Live : k < m => k <= pos
  BY <1>1, NextEntry DEF NextJob
<1> HIDE DEF m
<1>4. entries \in Seq(Nat) /\ m \in Nat /\ entries[m] \in 1..Len(jobs) /\ pos \in Nat
  BY <1>1, <1>3, LiveFacts DEF TypeOK, EntriesInv
<1>5. TypeOK'
  BY <1>1, <1>2, <1>4 DEF TypeOK
<1>6. Live' = Live /\ EntriesInv' /\ SpacedInv' /\ Ran' = Ran
  BY <1>1, <1>2 DEF Live, EntriesInv, SpacedInv, Ran
<1>7. RunningInv'
  BY <1>1, <1>2, <1>4 DEF RunningInv, TypeOK
<1>8. PassedInv'
  <2> SUFFICES ASSUME Walking'
      PROVE  /\ \A k \in Live : k <= m => \/ entries[k] \in Ran
                                          \/ ~Due(jobs[entries[k]], now)
                                          \/ pc' = "job" /\ k = m
             /\ \A n \in Ran : \E k \in Live : k <= m /\ entries[k] = n /\ (pc' = "job" => k < m)
             /\ pc' = "job" => m \in Live /\ running' = entries[m]
    BY <1>2, <1>6 DEF PassedInv
  <2>1. /\ \A k \in Live : k <= pos => entries[k] \in Ran \/ ~Due(jobs[entries[k]], now)
        /\ \A n \in Ran : \E k \in Live : k <= pos /\ entries[k] = n
    BY <1>1, <1>2 DEF PassedInv, Walking
  <2>2. \A k \in Live : k \in Nat
    BY <1>1, LiveFacts DEF TypeOK
  <2>3. ASSUME NEW k \in Live, k <= m
        PROVE  \/ entries[k] \in Ran
               \/ ~Due(jobs[entries[k]], now)
               \/ pc' = "job" /\ k = m
    <3>1. CASE k = m
      BY <3>1, <1>2
    <3>2. CASE k < m
      BY <3>2, <2>1, <1>3
    <3> QED
      BY <3>1, <3>2, <2>2, <2>3, <1>4
  <2>4. ASSUME NEW n \in Ran
        PROVE  \E k \in Live : k <= m /\ entries[k] = n /\ (pc' = "job" => k < m)
    <3>1. PICK k \in Live : k <= pos /\ entries[k] = n
      BY <2>1
    <3>2. k < m
      BY <3>1, <2>2, <1>3, <1>4
    <3> QED
      BY <3>1, <3>2, <2>2, <1>4
  <2> QED
    BY <2>3, <2>4, <1>2, <1>3
<1>9. CleanTickRunsAllDue'
  BY <1>2 DEF SchedulerInv, OutcomeInv, CleanTickRunsAllDue
<1>10. FailedTickStopsInPlace'
  BY <1>2 DEF SchedulerInv, OutcomeInv, FailedTickStopsInPlace
<1>11. OutcomeInv'
  BY <1>2 DEF SchedulerInv, OutcomeInv
<1> QED
  BY <1>5, <1>6, <1>7, <1>8, <1>9, <1>10, <1>11 DEF SchedulerInv

\* The job that ran has run, and its next run is an interval away.
LEMMA JobReturnsKeeps ==
  ASSUME SchedulerInv, JobReturns
  PROVE  SchedulerInv'
<1>1. TypeOK /\ EntriesInv /\ SpacedInv /\ PassedInv /\ RunningInv
  BY DEF SchedulerInv
<1>2. /\ pc = "job" /\ pc' = "next"
      /\ jobs' = [jobs EXCEPT ![running] =
           IF @ = Gone THEN Gone ELSE [@ EXCEPT !.last = now, !.prev = jobs[running].last]]
      /\ results' = Append(results, running)
      /\ UNCHANGED <<entries, room, now, pos, left, used, running, touched, outcome>>
  BY DEF JobReturns, iterator
<1>3. /\ jobs \in Seq(Job \cup {Gone}) /\ results \in Seq(Nat) /\ running \in Nat
      /\ running \in DOMAIN jobs /\ now \in Time /\ now \in Int
      /\ jobs[running] # Gone => jobs[running] \in Job /\ Due(jobs[running], now)
  <2>1. running \in DOMAIN jobs /\ (jobs[running] = Gone \/ Due(jobs[running], now))
    BY <1>1, <1>2 DEF RunningInv
  <2> QED
    BY <1>1, <2>1, SchedulerAssumption DEF TypeOK, Time
<1> DEFINE ran == [jobs[running] EXCEPT !.last = now, !.prev = jobs[running].last]
<1>4. jobs[running] # Gone => ran \in Job /\ ran # Gone
  BY <1>3, SchedulerAssumption DEF Job
<1>5. /\ jobs' \in Seq(Job \cup {Gone}) /\ DOMAIN jobs' = DOMAIN jobs /\ Len(jobs') = Len(jobs)
      /\ \A n \in DOMAIN jobs : n # running => jobs'[n] = jobs[n]
      /\ jobs'[running] = IF jobs[running] = Gone THEN Gone ELSE ran
  BY <1>2, <1>3, <1>4
<1>6. results' \in Seq(Nat) /\ Ran' = Ran \cup {running}
  <2>1. /\ results' \in Seq(Nat)
        /\ Len(results') = Len(results) + 1 /\ Len(results) \in Nat
        /\ DOMAIN results = 1..Len(results) /\ DOMAIN results' = 1..Len(results')
        /\ \A k \in 1..Len(results) : results'[k] = results[k]
        /\ results'[Len(results) + 1] = running
    BY <1>2, <1>3
  <2>2. \A k \in 1..(Len(results) + 1) : k \in 1..Len(results) \/ k = Len(results) + 1
    BY <2>1
  <2>3. Ran' \subseteq Ran \cup {running}
    BY <2>1, <2>2 DEF Ran
  <2>4. Ran \subseteq Ran' /\ running \in Ran'
    BY <2>1 DEF Ran
  <2> QED
    BY <2>1, <2>3, <2>4
<1>7. TypeOK'
  BY <1>1, <1>2, <1>5, <1>6 DEF TypeOK
<1>8. Live' = Live /\ entries' = entries
  BY <1>2 DEF Live
<1>9. EntriesInv'
  BY <1>1, <1>4, <1>5, <1>8 DEF EntriesInv
<1>10. SpacedInv'
  <2> SUFFICES ASSUME NEW n \in DOMAIN jobs, jobs'[n] # Gone, jobs'[n].prev # Never
               PROVE  /\ jobs'[n].last # Never
                      /\ jobs'[n].last - jobs'[n].prev >= jobs'[n].interval
    BY <1>5 DEF SpacedInv
  <2>1. CASE n # running
    BY <2>1, <1>1, <1>5 DEF SpacedInv
  <2>2. CASE n = running
    <3>1. jobs'[n] = ran /\ jobs[running] \in Job /\ Due(jobs[running], now)
      BY <2>2, <1>3, <1>5
    <3>2. /\ ran.last = now /\ ran.prev = jobs[running].last
          /\ ran.interval = jobs[running].interval
      BY <3>1, SchedulerAssumption DEF Job
    <3>3. now # Never /\ jobs[running].last # Never
      BY <3>1, <3>2, <1>3, SchedulerAssumption
    <3>4. /\ now >= jobs[running].last + jobs[running].interval
          /\ jobs[running].last \in Int /\ jobs[running].interval \in Int
      BY <3>1, <3>3, SchedulerAssumption DEF Due, Job, Time
    <3> QED
      BY <3>1, <3>2, <3>3, <3>4, <1>3
  <2> QED
    BY <2>1, <2>2
<1>11. PassedInv'
  <2> SUFFICES ASSUME ~touched
      PROVE  /\ \A k \in Live : k <= pos =>
                  entries[k] \in Ran \cup {running} \/ ~Due(jobs'[entries[k]], now)
             /\ \A n \in Ran \cup {running} : \E k \in Live : k <= pos /\ entries[k] = n
    BY <1>2, <1>6, <1>8 DEF PassedInv, Walking
  <2>1. /\ \A k \in Live : k <= pos =>
             entries[k] \in Ran \/ ~Due(jobs[entries[k]], now) \/ k = pos
        /\ \A n \in Ran : \E k \in Live : k <= pos /\ entries[k] = n
        /\ pos \in Live /\ running = entries[pos] /\ pos <= pos
    <3>1. pos \in Nat
      BY <1>1 DEF TypeOK
    <3> QED
      BY <3>1, <1>1, <1>2 DEF PassedInv, Walking
  <2>2. \A k \in Live : entries[k] # running => jobs'[entries[k]] = jobs[entries[k]]
    BY <1>1, <1>5, <1>3 DEF EntriesInv
  <2> QED
    BY <2>1, <2>2
<1> QED
  BY <1>2, <1>7, <1>9, <1>10, <1>11
     DEF SchedulerInv, OutcomeInv, RunningInv, CleanTickRunsAllDue, FailedTickStopsInPlace

\* A tick that returns has passed every entry.
LEMMA TickReturnsKeeps ==
  ASSUME SchedulerInv, TickReturns
  PROVE  SchedulerInv'
<1>1. TypeOK /\ EntriesInv /\ SpacedInv /\ PassedInv
  BY DEF SchedulerInv
<1>2. /\ UNCHANGED <<jobs, entries, room, now, running, results, touched>>
      /\ pc = "next" /\ pc' = "idle" /\ outcome' = "returned"
      /\ pos' = 0 /\ left' = 0 /\ used' = 0 /\ Ahead = {}
  BY DEF TickReturns, TickEnds, registry, report
<1>3. TypeOK'
  BY <1>1, <1>2 DEF TypeOK, Outcome
<1>4. Live' = Live /\ EntriesInv' /\ SpacedInv' /\ Ran' = Ran
  BY <1>1, <1>2 DEF Live, EntriesInv, SpacedInv, Ran
<1>5. CleanTickRunsAllDue'
  <2> SUFFICES ASSUME ~touched, NEW k \in Live
               PROVE  entries[k] \in Ran \/ ~Due(jobs[entries[k]], now)
    BY <1>2, <1>4 DEF CleanTickRunsAllDue, Registered
  <2>1. k \in Nat /\ pos \in Nat /\ k <= pos
    BY <1>1, <1>2, LiveFacts DEF Ahead, TypeOK
  <2> QED
    BY <2>1, <1>1, <1>2 DEF PassedInv, Walking
<1> QED
  BY <1>2, <1>3, <1>4, <1>5
     DEF SchedulerInv, OutcomeInv, RunningInv, PassedInv, Walking, FailedTickStopsInPlace

\* A tick whose job raises stops at that job, whose number divides what was passed
\* from what was not, because the entries are in the order of registration.
LEMMA JobRaisesKeeps ==
  ASSUME SchedulerInv, JobRaises
  PROVE  SchedulerInv'
<1>1. TypeOK /\ EntriesInv /\ SpacedInv /\ PassedInv /\ RunningInv
  BY DEF SchedulerInv
<1>2. /\ UNCHANGED <<entries, room, now, running, results, touched>>
      /\ jobs' = [jobs EXCEPT ![running] = IF @ = Gone THEN Gone ELSE Failed(@)]
      /\ pc = "job" /\ pc' = "idle" /\ outcome' = "raised"
      /\ pos' = 0 /\ left' = 0 /\ used' = 0
  BY DEF JobRaises, TickEnds, report
<1>3. jobs' = jobs
  <2>1. running \in DOMAIN jobs /\ jobs \in Seq(Job \cup {Gone})
    BY <1>1, <1>2 DEF RunningInv, TypeOK
  <2> QED
    BY <2>1, <1>2 DEF Failed
<1>4. TypeOK'
  <2>1. /\ UNCHANGED <<entries, room, now, running, results, touched>>
        /\ pc' = "idle" /\ outcome' = "raised" /\ pos' = 0 /\ left' = 0 /\ used' = 0
    BY <1>2
  <2> QED
    BY <1>1, <1>3, <2>1 DEF TypeOK, Outcome
<1>5. Live' = Live /\ EntriesInv' /\ SpacedInv' /\ Ran' = Ran
  BY <1>1, <1>2, <1>3 DEF Live, EntriesInv, SpacedInv, Ran
<1>6. FailedTickStopsInPlace'
  <2> SUFFICES ASSUME ~touched
      PROVE  /\ \A k \in Live : entries[k] < running =>
                  entries[k] \in Ran \/ ~Due(jobs[entries[k]], now)
             /\ \A n \in Ran : n < running
             /\ Due(jobs[running], now)
    BY <1>2, <1>3, <1>5 DEF FailedTickStopsInPlace, Registered
  <2>1. /\ \A k \in Live : k <= pos =>
             entries[k] \in Ran \/ ~Due(jobs[entries[k]], now) \/ k = pos
        /\ \A n \in Ran : \E k \in Live : k < pos /\ entries[k] = n
        /\ pos \in Live /\ running = entries[pos]
    BY <1>1, <1>2 DEF PassedInv, Walking
  <2>2. \A k \in Live : k \in Nat /\ entries[k] \in Nat
    <3>1. entries \in Seq(Nat)
      BY <1>1 DEF TypeOK
    <3> QED
      BY <3>1, LiveFacts DEF Live
  <2>3. ASSUME NEW k \in Live, entries[k] < running
        PROVE  k <= pos /\ k # pos
    <3>1. ~(pos < k) /\ k # pos
      BY <2>1, <2>2, <2>3, <1>1 DEF EntriesInv
    <3> QED
      BY <3>1, <2>1, <2>2
  <2>4. \A n \in Ran : n < running
    BY <2>1, <1>1 DEF EntriesInv
  <2>5. Due(jobs[running], now)
    BY <2>1, <1>1, <1>2 DEF RunningInv, EntriesInv
  <2> QED
    BY <2>1, <2>3, <2>4, <2>5
<1> QED
  BY <1>2, <1>4, <1>5, <1>6
     DEF SchedulerInv, OutcomeInv, RunningInv, PassedInv, Walking, CleanTickRunsAllDue

LEMMA DictChangedKeeps ==
  ASSUME SchedulerInv, DictChanged
  PROVE  SchedulerInv'
<1>1. TypeOK /\ EntriesInv /\ SpacedInv
  BY DEF SchedulerInv
<1>2. /\ UNCHANGED <<jobs, entries, room, now, running, results, touched>>
      /\ pc' = "idle" /\ outcome' = "changed" /\ pos' = 0 /\ left' = 0 /\ used' = 0
  BY DEF DictChanged, TickEnds, registry, report
<1>3. TypeOK'
  BY <1>1, <1>2 DEF TypeOK, Outcome
<1>4. EntriesInv' /\ SpacedInv'
  BY <1>1, <1>2 DEF Live, EntriesInv, SpacedInv
<1> QED
  BY <1>2, <1>3, <1>4
     DEF SchedulerInv, OutcomeInv, RunningInv, PassedInv, Walking, CleanTickRunsAllDue,
         FailedTickStopsInPlace

(***************************************************************************)
(* The order of a tick's runs                                              *)
(***************************************************************************)

\* What a tick has run is in the order of registration and up to the job that ran last,
\* and everything it has still to pass was registered after that one.
OrderInv ==
  /\ RanInOrder
  /\ running <= Len(jobs)
  /\ \A k \in DOMAIN results : results[k] <= running /\ (pc = "job" => results[k] < running)
  /\ pc # "idle" => \A k \in Live : k > pos => entries[k] > running

\* A rebuilt table has no entry further back than it was.
LEMMA PackedForward ==
  ASSUME entries \in Seq(Nat), NEW kept \in [1..Size -> Live], Packed(kept)
  PROVE  \A k \in 1..Size : kept[k] >= k
<1>1. Size \in Nat /\ \A k \in 1..Size : kept[k] \in Nat /\ kept[k] >= 1
  <2>1. \A j \in Live : j \in Nat /\ j >= 1
    BY DEF Live
  <2> QED
    BY <2>1, LiveFacts
<1> DEFINE Behind == {k \in 1..Size : kept[k] < k}
<1>2. Behind \in SUBSET Nat
  BY <1>1
<1>3. SUFFICES ASSUME Behind # {} PROVE FALSE
  BY <1>1
<1>4. PICK m \in Behind : \A n \in Behind : m <= n
  BY <1>2, <1>3, LeastNat
<1>5. m \in 1..Size /\ kept[m] < m /\ m # 1 /\ m - 1 \in 1..Size /\ m - 1 < m
  BY <1>1, <1>4
<1>6. m - 1 \notin Behind
  BY <1>4, <1>5
<1>7. kept[m - 1] >= m - 1
  BY <1>1, <1>5, <1>6
<1>8. kept[m - 1] < kept[m]
  BY <1>5 DEF Packed
<1> QED
  BY <1>1, <1>5, <1>7, <1>8

LEMMA OrderBegins == Init => OrderInv
<1> SUFFICES ASSUME Init PROVE OrderInv
  OBVIOUS
<1>1. jobs = <<>> /\ results = <<>> /\ running = 0 /\ pc = "idle"
  BY DEF Init
<1>2. DOMAIN results = {} /\ Len(jobs) = 0
  BY <1>1
<1> QED
  BY <1>1, <1>2 DEF OrderInv, RanInOrder

\* A change of the registry between ticks forgets the last tick; one made by a job leaves
\* what the tick has run and where it stands.
LEMMA OrderAfterChange ==
  ASSUME TypeOK, OrderInv, RegistryChanged, jobs' \in Seq(Job \cup {Gone}), Len(jobs') >= Len(jobs),
         pc = "job" => \A k \in Live' : k > pos => entries'[k] > running
  PROVE  OrderInv'
<1>1. Len(jobs') \in Nat /\ Len(jobs) \in Nat /\ running \in Nat
  BY DEF TypeOK
<1>2. CASE pc = "job" /\ UNCHANGED <<pc, iterator, running, results, outcome>>
  BY <1>1, <1>2 DEF OrderInv, RanInOrder, iterator
<1>3. CASE pc = "idle" /\ NoTick /\ UNCHANGED pc
  <2>1. results' = <<>> /\ running' = 0 /\ pc' = "idle"
    BY <1>3 DEF NoTick
  <2>2. DOMAIN results' = {}
    BY <2>1
  <2> QED
    BY <1>1, <2>1, <2>2 DEF OrderInv, RanInOrder
<1> QED
  BY <1>2, <1>3 DEF RegistryChanged

\* A new job has the highest number, and the entries ahead of the iterator are among those
\* that were ahead of it.
LEMMA OrderAfterRegister ==
  ASSUME SchedulerInv, OrderInv, NEW i \in JobId, NEW interval \in Interval, Register(i, interval)
  PROVE  OrderInv'
<1> DEFINE new == [id |-> i, interval |-> interval, last |-> Never, prev |-> Never]
<1>1. /\ TypeOK /\ EntriesInv /\ RegistryChanged /\ jobs' = Append(jobs, new)
      /\ jobs \in Seq(Job \cup {Gone}) /\ entries \in Seq(Nat) /\ pos \in Nat /\ running \in Nat
  BY DEF SchedulerInv, Register, TypeOK
<1>2. TypeOK'
  BY RegisterTyped
<1>3. jobs' \in Seq(Job \cup {Gone}) /\ Len(jobs') = Len(jobs) + 1 /\ Len(jobs) \in Nat
  BY <1>1, <1>2 DEF TypeOK
<1>4. running < Len(jobs) + 1
  BY <1>1, <1>3 DEF OrderInv
<1>5. ASSUME pc = "job", NEW k \in Live', k > pos
      PROVE  entries'[k] > running
  <2>1. \A j \in Live : j > pos => entries[j] > running
    BY <1>5 DEF OrderInv
  <2>2. CASE room > 0
    <3>1. entries' = Append(entries, Len(jobs) + 1)
      BY <2>2 DEF Register
    <3>2. /\ k \in 1..Len(entries) + 1 /\ entries'[k] # Gap
          /\ k \in 1..Len(entries) => entries'[k] = entries[k]
          /\ entries'[Len(entries) + 1] = Len(jobs) + 1
      BY <1>1, <1>3, <3>1 DEF Live
    <3>3. CASE k \in 1..Len(entries)
      <4>1. k \in Live
        BY <1>1, <3>2, <3>3 DEF Live
      <4> QED
        BY <1>5, <2>1, <3>2, <3>3, <4>1
    <3>4. CASE k = Len(entries) + 1
      BY <1>4, <1>1, <1>3, <3>2, <3>4
    <3> QED
      BY <1>1, <3>2, <3>3, <3>4
  <2>3. CASE ~(room > 0)
    <3>1. PICK kept \in [1..Size -> Live] :
            /\ Packed(kept)
            /\ entries' = Append([j \in 1..Size |-> entries[kept[j]]], Len(jobs) + 1)
      BY <2>3 DEF Register
    <3> DEFINE old == [j \in 1..Size |-> entries[kept[j]]]
    <3>2. Size \in Nat /\ \A j \in 1..Size : kept[j] \in Live /\ kept[j] \in Nat /\ entries[kept[j]] \in Nat
      <4>1. \A j \in Live : j \in Nat /\ entries[j] \in Nat
        BY <1>1 DEF Live
      <4>2. Size \in Nat
        BY <1>1, LiveFacts
      <4> QED
        BY <3>1, <4>1, <4>2
    <3>3. old \in Seq(Nat) /\ Len(old) = Size
      BY <3>2
    <3>4. /\ k \in 1..Size + 1
          /\ k \in 1..Size => entries'[k] = entries[kept[k]]
          /\ entries'[Size + 1] = Len(jobs) + 1
      <4>1. k \in DOMAIN entries'
        BY DEF Live
      <4>2. entries' = Append(old, Len(jobs) + 1)
        BY <3>1
      <4>3. \A j \in 1..Size : old[j] = entries[kept[j]]
        OBVIOUS
      <4> HIDE DEF old
      <4>4. /\ DOMAIN entries' = 1..Len(old) + 1 /\ entries'[Len(old) + 1] = Len(jobs) + 1
            /\ \A j \in 1..Len(old) : entries'[j] = old[j]
        BY <1>3, <3>3, <4>2
      <4> QED
        BY <3>3, <4>1, <4>3, <4>4
    <3>5. CASE k \in 1..Size
      <4>1. kept[k] >= k
        BY <1>1, <3>1, <3>5, PackedForward
      <4>2. kept[k] > pos
        BY <1>1, <1>5, <3>2, <3>5, <4>1
      <4> QED
        BY <2>1, <3>2, <3>4, <3>5, <4>2
    <3>6. CASE k = Size + 1
      BY <1>1, <1>3, <1>4, <3>4, <3>6
    <3> QED
      BY <3>2, <3>4, <3>5, <3>6
  <2> QED
    BY <2>2, <2>3
<1> HIDE DEF new
<1> QED
  BY <1>1, <1>3, <1>5, OrderAfterChange

LEMMA OrderAfterCancel ==
  ASSUME SchedulerInv, OrderInv, NEW k \in DOMAIN entries, Cancel(k)
  PROVE  OrderInv'
<1>1. /\ TypeOK /\ EntriesInv /\ RegistryChanged /\ k \in Live
      /\ jobs \in Seq(Job \cup {Gone}) /\ entries \in Seq(Nat)
      /\ entries' = [entries EXCEPT ![k] = Gap]
      /\ jobs' = [jobs EXCEPT ![entries[k]] = Gone]
  BY DEF SchedulerInv, Cancel, TypeOK
<1>2. jobs' \in Seq(Job \cup {Gone}) /\ Len(jobs') = Len(jobs) /\ Len(jobs) \in Nat
  <2>1. entries[k] \in 1..Len(jobs)
    BY <1>1 DEF EntriesInv
  <2> QED
    BY <1>1, <2>1
<1>3. \A j \in Live' : j \in Live /\ entries'[j] = entries[j]
  BY <1>1 DEF Live, Gap
<1>4. pc = "job" => \A j \in Live' : j > pos => entries'[j] > running
  BY <1>3 DEF OrderInv
<1> QED
  BY <1>1, <1>2, <1>4, OrderAfterChange

LEMMA OrderAfterTick ==
  ASSUME SchedulerInv, OrderInv, NEW time \in Time, Tick(time)
  PROVE  OrderInv'
<1>1. /\ UNCHANGED <<jobs, entries>> /\ running' = 0 /\ results' = <<>>
      /\ jobs \in Seq(Job \cup {Gone})
      /\ \A k \in Live : entries[k] \in 1..Len(jobs)
  BY DEF Tick, registry, SchedulerInv, TypeOK, EntriesInv
<1>2. DOMAIN results' = {} /\ Len(jobs) \in Nat /\ Live' = Live
  BY <1>1 DEF Live
<1> QED
  BY <1>1, <1>2 DEF OrderInv, RanInOrder

\* The next job is ahead of the iterator, and what is ahead of it has a higher number.
LEMMA OrderAfterNextJob ==
  ASSUME SchedulerInv, OrderInv, NextJob
  PROVE  OrderInv'
<1> DEFINE m == Min(Ahead)
<1>1. /\ TypeOK /\ EntriesInv /\ running \in Nat /\ pos \in Nat /\ jobs \in Seq(Job \cup {Gone})
      /\ results \in Seq(Nat)
  BY DEF SchedulerInv, TypeOK
<1>2. /\ UNCHANGED <<jobs, entries, results>>
      /\ pc = "next" /\ pos' = m
      /\ IF Due(jobs[entries[m]], now) THEN pc' = "job" /\ running' = entries[m]
         ELSE pc' = pc /\ running' = running
  BY DEF NextJob, registry
<1>3. m \in Live /\ m > pos
  BY <1>1, NextEntry DEF NextJob
<1> HIDE DEF m
<1>4. \A k \in Live : k \in Nat /\ entries[k] \in 1..Len(jobs)
  BY <1>1, LiveFacts DEF TypeOK, EntriesInv
<1>5. Live' = Live /\ Len(jobs) \in Nat
  BY <1>1, <1>2 DEF Live
<1>6. entries[m] > running /\ \A k \in Live : k > m => entries[k] > entries[m] /\ entries[k] > running
  <2>1. \A k \in Live : k > pos => entries[k] > running
    BY <1>2 DEF OrderInv
  <2>2. \A k \in Live : k > m => k > pos /\ m < k
    BY <1>1, <1>3, <1>4
  <2> QED
    BY <1>1, <1>3, <1>4, <2>1, <2>2 DEF EntriesInv
<1>7. RanInOrder /\ \A k \in DOMAIN results : results[k] <= running /\ results[k] \in Nat
  BY <1>1 DEF OrderInv
<1>8. RanInOrder'
  BY <1>2, <1>7 DEF RanInOrder
<1>9. CASE Due(jobs[entries[m]], now)
  <2>1. pc' = "job" /\ running' = entries[m] /\ entries[m] \in Nat /\ entries[m] <= Len(jobs)
    BY <1>2, <1>3, <1>4, <1>5, <1>9
  <2>2. \A k \in DOMAIN results : results[k] < entries[m]
    BY <1>1, <1>6, <1>7, <2>1
  <2> QED
    BY <1>2, <1>5, <1>6, <1>7, <1>8, <2>1, <2>2 DEF OrderInv
<1>10. CASE ~Due(jobs[entries[m]], now)
  BY <1>2, <1>5, <1>6, <1>7, <1>8, <1>10 DEF OrderInv
<1> QED
  BY <1>9, <1>10

\* The job that returns has a higher number than those before it.
LEMMA OrderAfterJobReturns ==
  ASSUME SchedulerInv, OrderInv, JobReturns
  PROVE  OrderInv'
<1>1. /\ pc = "job" /\ pc' = "next" /\ results' = Append(results, running)
      /\ UNCHANGED <<entries, pos, running>>
      /\ results \in Seq(Nat) /\ running \in Nat /\ jobs \in Seq(Job \cup {Gone})
  BY DEF JobReturns, iterator, SchedulerInv, TypeOK
<1>2. Len(jobs') = Len(jobs)
  BY <1>1 DEF JobReturns
<1>3. /\ DOMAIN results = 1..Len(results) /\ DOMAIN results' = 1..Len(results) + 1 /\ Len(results) \in Nat
      /\ \A k \in 1..Len(results) : results'[k] = results[k] /\ results[k] \in Nat
      /\ results'[Len(results) + 1] = running
  BY <1>1
<1>4. \A k \in DOMAIN results : results[k] < running
  BY <1>1 DEF OrderInv
<1>5. RanInOrder'
  <2> SUFFICES ASSUME NEW j \in DOMAIN results', NEW k \in DOMAIN results', j < k
               PROVE  results'[j] < results'[k]
    BY DEF RanInOrder
  <2>1. j \in 1..Len(results)
    BY <1>3
  <2>2. CASE k \in 1..Len(results)
    BY <1>3, <2>1, <2>2 DEF OrderInv, RanInOrder
  <2>3. CASE k = Len(results) + 1
    BY <1>3, <1>4, <2>1, <2>3
  <2> QED
    BY <1>3, <2>2, <2>3
<1>6. \A k \in DOMAIN results' : results'[k] <= running'
  <2> TAKE k \in DOMAIN results'
  <2>1. CASE k \in 1..Len(results)
    BY <1>1, <1>3, <1>4, <2>1
  <2>2. CASE k = Len(results) + 1
    BY <1>1, <1>3, <2>2
  <2> QED
    BY <1>3, <2>1, <2>2
<1>7. Live' = Live
  BY <1>1 DEF Live
<1>8. running <= Len(jobs) /\ \A k \in Live : k > pos => entries[k] > running
  BY <1>1 DEF OrderInv
<1> QED
  BY <1>1, <1>2, <1>5, <1>6, <1>7, <1>8 DEF OrderInv

LEMMA OrderAfterEnd ==
  ASSUME SchedulerInv, OrderInv, DictChanged \/ TickReturns \/ JobRaises
  PROVE  OrderInv'
<1>1. UNCHANGED <<running, results>> /\ pc' = "idle"
  BY DEF DictChanged, TickReturns, JobRaises, TickEnds, report
<1>2. jobs \in Seq(Job \cup {Gone})
  BY DEF SchedulerInv, TypeOK
<1>3. Len(jobs') = Len(jobs)
  BY <1>2 DEF DictChanged, TickReturns, JobRaises, registry
<1> QED
  BY <1>1, <1>3 DEF OrderInv, RanInOrder

(***************************************************************************)
(* Theorems                                                                *)
(***************************************************************************)

\* The invariant holds of every reachable state of the scheduler, whatever its jobs do.
THEOREM SchedulerInvariant == Spec => []SchedulerInv
<1>1. Init => SchedulerInv
  <2> SUFFICES ASSUME Init PROVE SchedulerInv
    OBVIOUS
  <2>1. 0 \in Time /\ Live = {} /\ Ran = {}
    BY SchedulerAssumption DEF Init, Live, Ran, Time
  <2>2. jobs \in Seq(Job \cup {Gone}) /\ entries \in Seq(Nat) /\ results \in Seq(Nat)
    BY DEF Init
  <2>3. touched \in BOOLEAN
    BY Zenon DEF Init
  <2>4. /\ room = 5 /\ pc = "idle" /\ now = 0 /\ pos = 0 /\ left = 0 /\ used = 0
        /\ running = 0 /\ outcome = "none"
    BY DEF Init
  <2>5. TypeOK
    BY <2>1, <2>2, <2>3, <2>4 DEF TypeOK, Outcome
  <2> QED
    BY <2>1, <2>5
       DEF Init, SchedulerInv, OutcomeInv, EntriesInv, SpacedInv, RunningInv, PassedInv, Walking,
           CleanTickRunsAllDue, FailedTickStopsInPlace
<1>2. SchedulerInv /\ [Next]_vars => SchedulerInv'
  <2> SUFFICES ASSUME SchedulerInv, [Next]_vars PROVE SchedulerInv'
    OBVIOUS
  <2>1. CASE UNCHANGED vars
    BY <2>1 DEF vars, SchedulerInv, TypeOK, OutcomeInv, EntriesInv, SpacedInv, RunningInv,
                PassedInv, Walking, CleanTickRunsAllDue, FailedTickStopsInPlace, Live, Ran,
                Registered
  <2>2. CASE Next
    BY <2>2, RegisterKeeps, CancelKeeps, TickKeeps, NextJobKeeps, DictChangedKeeps,
       TickReturnsKeeps, JobReturnsKeeps, JobRaisesKeeps DEF Next
  <2> QED
    BY <2>1, <2>2
<1> QED
  BY <1>1, <1>2, PTL DEF Spec

\* A tick that returns, and whose jobs left the registry alone, has run every job that
\* was due, whatever gaps and rebuilds the registry went through before.  And whatever the
\* jobs of a tick do to the registry, it runs none twice and none out of order.
THEOREM TicksRunJobs == Spec => []TickRunsJobs
<1>1. Init => OrderInv
  BY OrderBegins
<1>2. SchedulerInv /\ OrderInv /\ [Next]_vars => OrderInv'
  <2> SUFFICES ASSUME SchedulerInv, OrderInv, [Next]_vars PROVE OrderInv'
    OBVIOUS
  <2>1. CASE UNCHANGED vars
    BY <2>1 DEF vars, OrderInv, RanInOrder, Live
  <2>2. CASE Next
    BY <2>2, OrderAfterRegister, OrderAfterCancel, OrderAfterTick, OrderAfterNextJob,
       OrderAfterJobReturns, OrderAfterEnd DEF Next
  <2> QED
    BY <2>1, <2>2
<1>3. SchedulerInv /\ OrderInv => TickRunsJobs
  BY DEF SchedulerInv, OrderInv, TickRunsJobs
<1> QED
  BY <1>1, <1>2, <1>3, SchedulerInvariant, PTL DEF Spec

\* A tick whose job raises has run every due job registered before it and none after,
\* and the job stays due.
THEOREM FailedTicksStop == Spec => []FailedTickStopsInPlace
<1>1. SchedulerInv => FailedTickStopsInPlace
  BY DEF SchedulerInv
<1> QED
  BY <1>1, SchedulerInvariant, PTL

\* Two runs of a job that both returned are at least its interval apart, though times
\* may go back and jobs be cancelled while they run.
THEOREM RunsAlwaysSpaced == Spec => []RunsAreSpaced
<1>1. SchedulerInv => RunsAreSpaced
  BY DEF SchedulerInv, RunsAreSpaced, SpacedInv, EntriesInv, Registered, TypeOK
<1> QED
  BY <1>1, SchedulerInvariant, PTL

=============================================================================
